---- MODULE Spec2Model ----
(***************************************************************************)
(* A model of the financial-document analysis tool                         *)
(* (src/src/financial_analysis/tools/custom_tool.py), of the crew that     *)
(* runs it (src/src/financial_analysis/crew.py) and of the HTTP API        *)
(* (src/api.py).                                                           *)
(*                                                                         *)
(* Numbers.  Python computes the ratios and scores in floating point.      *)
(* The model computes them as exact rationals <<n, d>> (d > 0, lowest      *)
(* terms), so a comparison with a threshold is the comparison of the       *)
(* exact quotient; the rounding of a single float operation is not part of *)
(* the model.                                                              *)
(*                                                                         *)
(* Dictionaries.  A Python dict is a function whose DOMAIN is the set of   *)
(* keys present; `k in d` is k \in DOMAIN d.                               *)
(***************************************************************************)
EXTENDS Integers, Sequences, FiniteSets, TLC

VARIABLES
    pc,             \* position of the call being modelled
    file_path,      \* _run's file_path argument
    file_type_arg,  \* _run's file_type argument
    file,           \* what is stored under file_path
    file_type,      \* _run's file_type after line 34
    data,           \* _run's data: the extractor's result
    figures,        \* financial_figures: dict metric key -> figure
    ratios,         \* financial_ratios: dict ratio key -> rational
    performance,    \* performance_summary
    analysis,       \* _run's analysis: the result of _analyze_financial_data
    exc,            \* the exception in flight, if any
    calls,          \* the stage functions _run has invoked, in order
    result,         \* what _run returned
    risk_indicators, \* the list _identify_risks returns
    history,        \* the earlier calls of _run, in order: arguments,
                    \* file and result of each
    analysis_cache, \* api.py analysis_cache: dict analysis id -> entry
    tasks,          \* the background tasks: analysis id -> the position
                    \* and locals of its perform_analysis call
    temp_files,     \* the analysis ids whose uploaded file is on disk
    settings,       \* api.py settings
    environ,        \* os.environ
    response,       \* what the last request handler returned
    api_log         \* the cache writes of perform_analysis per id, and
                    \* the ids deleted while their status was "processing"

vars == <<pc, file_path, file_type_arg, file, file_type, data, figures, ratios,
          performance, analysis, exc, calls, result, risk_indicators,
          history, analysis_cache, tasks, temp_files, settings, environ,
          response, api_log>>

\* The variables of the API and of the crew.
apiVars == <<analysis_cache, tasks, temp_files, settings, environ, response,
             api_log>>

\* The variables of _run that a call of one pure function leaves alone.
runVars == <<file_path, file_type_arg, file, file_type, data, analysis, exc,
             calls, result, history>>

----------------------------------------------------------------------------
(* Bounds of the model. *)

\* Numeric figures are drawn from -1 .. MaxFigure.
MaxFigure == 1

----------------------------------------------------------------------------
(* Exact rational arithmetic. *)

Abs(x) == IF x < 0 THEN -x ELSE x

RECURSIVE GCD(_, _)
GCD(a, b) == IF b = 0 THEN a ELSE GCD(b, a % b)

\* The rational n/d (d # 0) in lowest terms with a positive denominator.
Rat(n, d) ==
    LET g == GCD(Abs(n), Abs(d))
        s == IF d < 0 THEN -1 ELSE 1
    IN  <<(s * n) \div g, (s * d) \div g>>

RInt(i) == <<i, 1>>
RDiv(a, b) == Rat(a[1] * b[2], a[2] * b[1])
RMul(a, b) == Rat(a[1] * b[1], a[2] * b[2])
RAdd(a, b) == Rat(a[1] * b[2] + b[1] * a[2], a[2] * b[2])
RLt(a, b) == a[1] * b[2] < b[1] * a[2]
RGt(a, b) == RLt(b, a)
RGe(a, b) == ~RLt(a, b)
REq(a, b) == a[1] * b[2] = b[1] * a[2]

----------------------------------------------------------------------------
(* Dictionaries and figures. *)

EmptyDict == [k \in {} |-> 0]
Has(d, k) == k \in DOMAIN d

\* The nine metric keys of _extract_financial_figures.
MetricKeys ==
    {"revenue", "net_income", "ebitda", "total_assets", "total_liabilities",
     "equity", "debt", "cash", "working_capital"}

\* A figure is a number (PDF path: float(value_str) * multiplier) or a
\* per-column statistics record (tabular path).
Num(n) == [kind |-> "number", value |-> n]
IsNumber(v) == v.kind = "number"

Absent == [kind |-> "absent"]

\* The dict holding the entries of t that are not Absent.
Restrict(t) == [k \in {j \in DOMAIN t : t[j].kind # "absent"} |-> t[k]]

----------------------------------------------------------------------------
(* _calculate_ratios (custom_tool.py 259-286). *)

RatioKeys ==
    {"net_margin", "ebitda_margin", "cash_to_debt", "debt_to_equity",
     "debt_to_assets", "roe", "roa", "roce"}

\* (The guard written as `!= 0`.)
DenominatorOk_NonZero(v) == v # 0
\* The guard on the denominator figure: `figures[den] > 0`.
DenominatorOk(v) == v > 0

\* (The factor 100 left out.)
Percent_Missing(q) == q
\* `(x) * 100`.
Percent(q) == RMul(q, RInt(100))

\* `figures[num] / figures[den]`.
Quotient(f, num, den) == RDiv(RInt(f[num].value), RInt(f[den].value))

\* One `if ... in figures and ... in figures and figures[den] > 0:` block.
RatioEntry(f, name, num, den, pct) ==
    IF Has(f, num) /\ Has(f, den) /\ DenominatorOk(f[den].value)
    THEN name :> (IF pct THEN Percent(Quotient(f, num, den))
                         ELSE Quotient(f, num, den))
    ELSE EmptyDict

\* The comparison or the division raises TypeError when it meets a figure
\* that is not a number (a statistics record of the tabular path).
RatioEntryRaises(f, num, den) ==
    /\ Has(f, num) /\ Has(f, den)
    /\ \/ ~IsNumber(f[den])
       \/ IsNumber(f[den]) /\ DenominatorOk(f[den].value) /\ ~IsNumber(f[num])

_calculate_ratios_raises(f) ==
    \/ RatioEntryRaises(f, "net_income", "revenue")
    \/ RatioEntryRaises(f, "ebitda", "revenue")
    \/ RatioEntryRaises(f, "cash", "debt")
    \/ RatioEntryRaises(f, "debt", "equity")
    \/ RatioEntryRaises(f, "debt", "total_assets")
    \/ RatioEntryRaises(f, "net_income", "equity")
    \/ RatioEntryRaises(f, "net_income", "total_assets")
    \/ RatioEntryRaises(f, "ebitda", "total_assets")

_calculate_ratios(f) ==
       RatioEntry(f, "net_margin", "net_income", "revenue", TRUE)
    @@ RatioEntry(f, "ebitda_margin", "ebitda", "revenue", TRUE)
    @@ RatioEntry(f, "cash_to_debt", "cash", "debt", FALSE)
    @@ RatioEntry(f, "debt_to_equity", "debt", "equity", FALSE)
    @@ RatioEntry(f, "debt_to_assets", "debt", "total_assets", FALSE)
    @@ RatioEntry(f, "roe", "net_income", "equity", TRUE)
    @@ RatioEntry(f, "roa", "net_income", "total_assets", TRUE)
    @@ RatioEntry(f, "roce", "ebitda", "total_assets", TRUE)

----------------------------------------------------------------------------
(* _calculate_ratios as a pure function: the figure set is drawn in the     *)
(* initial state and the function is applied to it.                         *)

\* The figures _calculate_ratios reads.
RatioInputKeys == MetricKeys \ {"total_liabilities", "working_capital"}

NoPerformance == [grade |-> "unassessed"]
NoFile == [format |-> "none"]
NoData == [document_type |-> "none"]
NoAnalysis == [document_type |-> "none"]
NoException == [type |-> "none"]
NoResult == [status |-> "none"]

NoResponse == [status_code |-> 0]
NoLog == [writes |-> [k \in {} |-> 0], deleted |-> {}]

\* No request has been made of the API and no crew has been built.
ApiIdle ==
    /\ analysis_cache = [k \in {} |-> 0]
    /\ tasks = [k \in {} |-> 0]
    /\ temp_files = {}
    /\ settings = [openai_api_key |-> ""]
    /\ environ = [k \in {} |-> 0]
    /\ response = NoResponse
    /\ api_log = NoLog

\* _run has not been called.
RunIdle ==
    /\ file_path = <<>>
    /\ file_type_arg = "auto"
    /\ file = NoFile
    /\ file_type = "auto"
    /\ data = NoData
    /\ analysis = NoAnalysis
    /\ exc = NoException
    /\ calls = <<>>
    /\ result = NoResult
    /\ history = <<>>

\* The values a figure is drawn from: -1 .. MaxFigure, and for revenue and
\* net_income also the values of the specification's example.
FigureValues(k) ==
    {Num(n) : n \in -1 .. MaxFigure}
        \cup (IF k = "revenue" THEN {Num(100)} ELSE {})
        \cup (IF k = "net_income" THEN {Num(10)} ELSE {})

InitRatios ==
    /\ pc = "ratios_input"
    /\ \E rev \in {Absent} \cup FigureValues("revenue"),
          ni \in {Absent} \cup FigureValues("net_income"),
          t \in [RatioInputKeys \ {"revenue", "net_income"}
                    -> {Absent} \cup FigureValues("other")],
          u \in [MetricKeys \ RatioInputKeys -> {Absent, Num(1)}] :
            figures = Restrict(("revenue" :> rev) @@ ("net_income" :> ni)
                                   @@ t @@ u)
    /\ ratios = EmptyDict
    /\ performance = NoPerformance
    /\ risk_indicators = <<>>
    /\ RunIdle
    /\ ApiIdle

ApplyCalculateRatios ==
    /\ pc = "ratios_input"
    /\ ~_calculate_ratios_raises(figures)
    /\ ratios' = _calculate_ratios(figures)
    /\ pc' = "ratios_done"
    /\ UNCHANGED <<figures, performance, risk_indicators, runVars, apiVars>>

NextRatios == ApplyCalculateRatios

SpecRatios == InitRatios /\ [][NextRatios]_vars

\* The numerator and denominator figure of each ratio, and whether it is a
\* percentage, as tabled in the specification.
RatioNum ==
    [net_margin |-> "net_income", ebitda_margin |-> "ebitda",
     cash_to_debt |-> "cash", debt_to_equity |-> "debt",
     debt_to_assets |-> "debt", roe |-> "net_income", roa |-> "net_income",
     roce |-> "ebitda"]
RatioDen ==
    [net_margin |-> "revenue", ebitda_margin |-> "revenue",
     cash_to_debt |-> "debt", debt_to_equity |-> "equity",
     debt_to_assets |-> "total_assets", roe |-> "equity",
     roa |-> "total_assets", roce |-> "total_assets"]
RatioScale ==
    [net_margin |-> 100, ebitda_margin |-> 100, cash_to_debt |-> 1,
     debt_to_equity |-> 1, debt_to_assets |-> 1, roe |-> 100, roa |-> 100,
     roce |-> 100]

\* C1: after _calculate_ratios, a ratio key is in the result iff both of its
\* input figures are present and its denominator figure is > 0, and the
\* result holds no key outside the eight ratio keys.
C1_RatioPresentIffGuard ==
    pc = "ratios_done" =>
        /\ DOMAIN ratios \subseteq RatioKeys
        /\ \A r \in RatioKeys :
              Has(ratios, r) <=>
                  /\ Has(figures, RatioNum[r])
                  /\ Has(figures, RatioDen[r])
                  /\ figures[RatioDen[r]].value > 0

\* A figure set with a present ratio, a ratio absent for a missing input and
\* a ratio absent for a denominator that is present but not positive.
C1_Witness ==
    /\ pc = "ratios_done"
    /\ Has(ratios, "cash_to_debt")
    /\ ~Has(figures, "ebitda") /\ ~Has(ratios, "ebitda_margin")
    /\ Has(figures, "net_income") /\ Has(figures, "revenue")
    /\ figures["revenue"].value <= 0 /\ ~Has(ratios, "net_margin")

\* C2: every ratio present in the result equals numerator / denominator,
\* times 100 for the percentage ratios.
C2_RatioValueIsFormula ==
    pc = "ratios_done" =>
        \A r \in DOMAIN ratios :
            ratios[r][1] * figures[RatioDen[r]].value
                = RatioScale[r] * figures[RatioNum[r]].value * ratios[r][2]

\* The example of the specification: revenue 100 and net_income 10 give
\* net_margin 10; beside it a negative percentage and a plain ratio.
C2_Witness ==
    /\ pc = "ratios_done"
    /\ Has(figures, "revenue") /\ figures["revenue"] = Num(100)
    /\ Has(figures, "net_income") /\ figures["net_income"] = Num(10)
    /\ Has(ratios, "net_margin") /\ ratios["net_margin"] = <<10, 1>>
    /\ Has(ratios, "ebitda_margin") /\ ratios["ebitda_margin"] = <<-1, 1>>
    /\ Has(ratios, "debt_to_equity") /\ ratios["debt_to_equity"] = <<1, 1>>

----------------------------------------------------------------------------
(* _assess_performance (custom_tool.py 331-402). *)

\* Lines 343-353: the band of net_margin.
ProfitabilityScore(margin) ==
    IF RGt(margin, RInt(15)) THEN 90
    ELSE IF RGt(margin, RInt(10)) THEN 80
    ELSE IF RGt(margin, RInt(5)) THEN 65
    ELSE 40

\* Lines 355-363: the band of cash_to_debt (0.5 and 0.2).
LiquidityScore(cash_ratio) ==
    IF RGt(cash_ratio, <<1, 2>>) THEN 85
    ELSE IF RGt(cash_ratio, <<1, 5>>) THEN 70
    ELSE 50

\* (The first band written as `<= 0.5`.)
LeverageScore_Closed(de_ratio) ==
    IF ~RGt(de_ratio, <<1, 2>>) THEN 90
    ELSE IF RLt(de_ratio, RInt(1)) THEN 75
    ELSE IF RLt(de_ratio, <<3, 2>>) THEN 60
    ELSE 40
\* Lines 365-375: the band of debt_to_equity (0.5, 1.0 and 1.5).
LeverageScore(de_ratio) ==
    IF RLt(de_ratio, <<1, 2>>) THEN 90
    ELSE IF RLt(de_ratio, RInt(1)) THEN 75
    ELSE IF RLt(de_ratio, <<3, 2>>) THEN 60
    ELSE 40

\* Lines 377-387: the band of roe.
EfficiencyScore(roe) ==
    IF RGt(roe, RInt(20)) THEN 95
    ELSE IF RGt(roe, RInt(15)) THEN 85
    ELSE IF RGt(roe, RInt(10)) THEN 70
    ELSE 50

RECURSIVE SumSeq(_)
SumSeq(s) == IF s = <<>> THEN 0 ELSE Head(s) + SumSeq(Tail(s))

\* (The mean over all four categories, scored or not.)
MeanScore_FixedDivisor(scores) == Rat(SumSeq(scores), 4)
\* Line 390: sum(scores) / len(scores), for a non-empty list.
MeanScore(scores) == Rat(SumSeq(scores), Len(scores))

\* (The breakpoints written with `>`.)
GradeOf_Open(overall) ==
    IF RGt(overall, RInt(85)) THEN "A"
    ELSE IF RGt(overall, RInt(75)) THEN "B"
    ELSE IF RGt(overall, RInt(60)) THEN "C"
    ELSE IF RGt(overall, RInt(50)) THEN "D"
    ELSE "F"
\* Lines 391-400: the grade of an overall score.
GradeOf(overall) ==
    IF RGe(overall, RInt(85)) THEN "A"
    ELSE IF RGe(overall, RInt(75)) THEN "B"
    ELSE IF RGe(overall, RInt(60)) THEN "C"
    ELSE IF RGe(overall, RInt(50)) THEN "D"
    ELSE "F"

\* (A dict that starts every category at full marks.)
InitialPerformance_FullMarks ==
    [overall_score |-> RInt(100), profitability_score |-> 100,
     liquidity_score |-> 100, leverage_score |-> 100, efficiency_score |-> 100,
     grade |-> "N/A"]
\* Lines 332-339: the dict the function starts from.
InitialPerformance ==
    [overall_score |-> RInt(0), profitability_score |-> 0,
     liquidity_score |-> 0, leverage_score |-> 0, efficiency_score |-> 0,
     grade |-> "N/A"]

\* The figures argument is not read.
_assess_performance(f, r) ==
    LET p1 == IF Has(r, "net_margin")
              THEN [InitialPerformance EXCEPT
                       !.profitability_score = ProfitabilityScore(r["net_margin"])]
              ELSE InitialPerformance
        s1 == IF Has(r, "net_margin") THEN <<p1.profitability_score>> ELSE <<>>
        p2 == IF Has(r, "cash_to_debt")
              THEN [p1 EXCEPT !.liquidity_score = LiquidityScore(r["cash_to_debt"])]
              ELSE p1
        s2 == IF Has(r, "cash_to_debt") THEN Append(s1, p2.liquidity_score) ELSE s1
        p3 == IF Has(r, "debt_to_equity")
              THEN [p2 EXCEPT !.leverage_score = LeverageScore(r["debt_to_equity"])]
              ELSE p2
        s3 == IF Has(r, "debt_to_equity") THEN Append(s2, p3.leverage_score) ELSE s2
        p4 == IF Has(r, "roe")
              THEN [p3 EXCEPT !.efficiency_score = EfficiencyScore(r["roe"])]
              ELSE p3
        scores == IF Has(r, "roe") THEN Append(s3, p4.efficiency_score) ELSE s3
    IN  IF scores # <<>>
        THEN [p4 EXCEPT !.overall_score = MeanScore(scores),
                        !.grade = GradeOf(MeanScore(scores))]
        ELSE p4

----------------------------------------------------------------------------
(* _assess_performance as a pure function: the ratio set is drawn in the    *)
(* initial state and the function is applied to it.                         *)

\* net_margin and roe are drawn from -1 .. MaxPercent (in percent),
\* cash_to_debt from 0 .. MaxTenths tenths, debt_to_equity from
\* 0 .. MaxQuarters quarters.
MaxPercent == 21
MaxTenths == 6
MaxQuarters == 7

AbsentRatio == <<0, 0>>

PercentGrid == {RInt(k) : k \in -1 .. MaxPercent}
TenthsGrid == {Rat(k, 10) : k \in 0 .. MaxTenths}
QuartersGrid == {Rat(k, 4) : k \in 0 .. MaxQuarters}

\* The dict holding the entries of t that are not AbsentRatio.
RestrictRatios(t) == [k \in {j \in DOMAIN t : t[j] # AbsentRatio} |-> t[k]]

InitPerf ==
    /\ pc = "perf_input"
    /\ figures = EmptyDict
    /\ \E nm \in {AbsentRatio} \cup PercentGrid,
          cd \in {AbsentRatio} \cup TenthsGrid,
          de \in {AbsentRatio} \cup QuartersGrid,
          re \in {AbsentRatio} \cup PercentGrid :
            ratios = RestrictRatios(("net_margin" :> nm) @@ ("cash_to_debt" :> cd)
                         @@ ("debt_to_equity" :> de) @@ ("roe" :> re))
    /\ performance = NoPerformance
    /\ risk_indicators = <<>>
    /\ RunIdle
    /\ ApiIdle

ApplyAssessPerformance ==
    /\ pc = "perf_input"
    /\ performance' = _assess_performance(figures, ratios)
    /\ pc' = "perf_done"
    /\ UNCHANGED <<figures, ratios, risk_indicators, runVars, apiVars>>

NextPerf == ApplyAssessPerformance

SpecPerf == InitPerf /\ [][NextPerf]_vars

\* The category scores and the ratio each is derived from.
CategoryRatio ==
    [profitability_score |-> "net_margin", liquidity_score |-> "cash_to_debt",
     leverage_score |-> "debt_to_equity", efficiency_score |-> "roe"]
Categories == DOMAIN CategoryRatio
ScoredCategories(r) == {c \in Categories : Has(r, CategoryRatio[c])}

RECURSIVE SumOver(_, _)
SumOver(p, cs) ==
    IF cs = {} THEN 0
    ELSE LET c == CHOOSE x \in cs : TRUE IN p[c] + SumOver(p, cs \ {c})

\* C7: when at least one scored ratio is present, overall_score is the sum
\* of the scores of exactly the categories whose ratio is present, divided
\* by the number of those categories.
C7_OverallIsMeanOfPresent ==
    (pc = "perf_done" /\ ScoredCategories(ratios) # {}) =>
        performance.overall_score[1] * Cardinality(ScoredCategories(ratios))
            = SumOver(performance, ScoredCategories(ratios))
                  * performance.overall_score[2]

\* The example of the specification (profitability 90 alone gives overall 90
\* and grade A) ...
C7_Witness ==
    /\ pc = "perf_done"
    /\ ScoredCategories(ratios) = {"profitability_score"}
    /\ performance.profitability_score = 90
    /\ performance.overall_score = <<90, 1>>
    /\ performance.grade = "A"

\* ... and a mean over three categories that is not an integer.
C7_WitnessThree ==
    /\ pc = "perf_done"
    /\ Cardinality(ScoredCategories(ratios)) = 3
    /\ performance.overall_score[2] = 3

\* C8 (as claimed): in the performance summary a category whose ratio is
\* absent is not reported with the score 0, and when no category can be
\* scored overall_score is not reported as 0 and the grade is "N/A".
C8_AbsentCategoryNeverZero ==
    pc = "perf_done" =>
        /\ \A c \in Categories \ ScoredCategories(ratios) :
              Has(performance, c) => performance[c] # 0
        /\ ScoredCategories(ratios) = {} =>
              /\ Has(performance, "overall_score")
                    => performance.overall_score # RInt(0)
              /\ performance.grade = "N/A"

\* C9: whenever overall_score is computed, the grade is A from 85, B from
\* 75, C from 60, D from 50, each bound included, and F below 50.
C9_GradeBreakpoints ==
    (pc = "perf_done" /\ ScoredCategories(ratios) # {}) =>
        LET n == performance.overall_score[1]
            d == performance.overall_score[2]
            g == performance.grade
        IN  /\ g = "A" <=> n >= 85 * d
            /\ g = "B" <=> (n < 85 * d /\ n >= 75 * d)
            /\ g = "C" <=> (n < 75 * d /\ n >= 60 * d)
            /\ g = "D" <=> (n < 60 * d /\ n >= 50 * d)
            /\ g = "F" <=> n < 50 * d

\* An overall score of exactly 85, which is graded A ...
C9_Witness ==
    /\ pc = "perf_done"
    /\ Cardinality(ScoredCategories(ratios)) = 2
    /\ performance.overall_score = <<85, 1>>
    /\ performance.grade = "A"

\* ... and a ratio set for each of the other grades, the B one just below 85.
C9_WitnessB ==
    /\ pc = "perf_done" /\ performance.grade = "B"
    /\ performance.overall_score = <<335, 4>>
C9_WitnessC ==
    /\ pc = "perf_done" /\ performance.grade = "C"
    /\ performance.overall_score = <<60, 1>>
C9_WitnessD ==
    /\ pc = "perf_done" /\ performance.grade = "D"
    /\ performance.overall_score = <<50, 1>>
C9_WitnessF ==
    /\ pc = "perf_done" /\ performance.grade = "F"
    /\ ScoredCategories(ratios) # {}

\* C10: each category score is the band of its one ratio, every boundary
\* value falling into the band below (net_margin, cash_to_debt, roe) or
\* above (debt_to_equity) it; debt 500 crore with equity 1000 crore gives
\* debt_to_equity 0.5 and leverage_score 75.
C10_ScoresAreBands ==
    \* debt 500 crore and equity 1000 crore (figures in crore)
    /\ LET example == ("debt" :> Num(500)) @@ ("equity" :> Num(1000))
       IN  /\ _calculate_ratios(example)["debt_to_equity"] = <<1, 2>>
           /\ _assess_performance(example, _calculate_ratios(example)).leverage_score = 75
    /\ pc = "perf_done" =>
        /\ Has(ratios, "net_margin") =>
              LET m == ratios["net_margin"] s == performance.profitability_score
              IN  /\ RGt(m, RInt(15)) => s = 90
                  /\ (~RGt(m, RInt(15)) /\ RGt(m, RInt(10))) => s = 80
                  /\ (~RGt(m, RInt(10)) /\ RGt(m, RInt(5))) => s = 65
                  /\ ~RGt(m, RInt(5)) => s = 40
        /\ Has(ratios, "cash_to_debt") =>
              LET c == ratios["cash_to_debt"] s == performance.liquidity_score
              IN  /\ RGt(c, <<1, 2>>) => s = 85
                  /\ (~RGt(c, <<1, 2>>) /\ RGt(c, <<1, 5>>)) => s = 70
                  /\ ~RGt(c, <<1, 5>>) => s = 50
        /\ Has(ratios, "debt_to_equity") =>
              LET e == ratios["debt_to_equity"] s == performance.leverage_score
              IN  /\ RLt(e, <<1, 2>>) => s = 90
                  /\ (~RLt(e, <<1, 2>>) /\ RLt(e, RInt(1))) => s = 75
                  /\ (~RLt(e, RInt(1)) /\ RLt(e, <<3, 2>>)) => s = 60
                  /\ ~RLt(e, <<3, 2>>) => s = 40
        /\ Has(ratios, "roe") =>
              LET r == ratios["roe"] s == performance.efficiency_score
              IN  /\ RGt(r, RInt(20)) => s = 95
                  /\ (~RGt(r, RInt(20)) /\ RGt(r, RInt(15))) => s = 85
                  /\ (~RGt(r, RInt(15)) /\ RGt(r, RInt(10))) => s = 70
                  /\ ~RGt(r, RInt(10)) => s = 50

\* The example of the specification (debt_to_equity exactly 0.5 scores 75),
\* with the other three ratios on a boundary of their own.
C10_Witness ==
    /\ pc = "perf_done"
    /\ DOMAIN ratios = {"net_margin", "cash_to_debt", "debt_to_equity", "roe"}
    /\ ratios["debt_to_equity"] = <<1, 2>> /\ performance.leverage_score = 75
    /\ ratios["net_margin"] = <<15, 1>> /\ performance.profitability_score = 80
    /\ ratios["cash_to_debt"] = <<1, 5>> /\ performance.liquidity_score = 50
    /\ ratios["roe"] = <<20, 1>> /\ performance.efficiency_score = 85

----------------------------------------------------------------------------
(* _detect_file_type (custom_tool.py 56-58).                                *)
(*                                                                          *)
(* A path is a sequence of pieces of text: "." and "/" are the two          *)
(* characters of that name, every other piece is a run of letters.  No two  *)
(* or more pieces of PathPieces concatenate to one of the extension words,  *)
(* so a part of a path spells "pdf" exactly when it is the sequence         *)
(* <<"pdf">>.                                                               *)

PathPieces == {"pdf", "PDF", "csv", "xlsx", "Xls", "txt", "a", ".", "/"}

\* str.lower() of one piece.
LowerPiece(t) ==
    CASE t = "PDF" -> "pdf"
      [] t = "Xls" -> "xls"
      [] OTHER -> t

\* file_path.lower()
Lower(path) == [i \in 1 .. Len(path) |-> LowerPiece(path[i])]

MaxOf(S) == CHOOSE x \in S : \A y \in S : y <= x

\* s.split(sep)[-1]: the text after the last separator, all of s when it
\* holds none.
SplitLast(s, sep) ==
    LET at == {i \in 1 .. Len(s) : s[i] = sep}
    IN  IF at = {} THEN s ELSE SubSeq(s, MaxOf(at) + 1, Len(s))

_detect_file_type(path) ==
    LET ext == SplitLast(Lower(path), ".")
    IN  IF ext = <<"pdf">> THEN "pdf"
        ELSE IF ext \in {<<"csv">>, <<"xlsx">>, <<"xls">>} THEN "csv"
        ELSE "unknown"

----------------------------------------------------------------------------
(* _detect_file_type as a pure function of the path. *)

\* Paths of at most MaxPathLen pieces.
MaxPathLen == 4

Paths == UNION {[1 .. n -> PathPieces] : n \in 0 .. MaxPathLen}

InitDetect ==
    /\ pc = "detect_input"
    /\ file_path \in Paths
    /\ file_type_arg = "auto"
    /\ file = NoFile
    /\ file_type = "auto"
    /\ data = NoData
    /\ figures = EmptyDict
    /\ ratios = EmptyDict
    /\ performance = NoPerformance
    /\ risk_indicators = <<>>
    /\ analysis = NoAnalysis
    /\ exc = NoException
    /\ calls = <<>>
    /\ result = NoResult
    /\ history = <<>>
    /\ ApiIdle

ApplyDetectFileType ==
    /\ pc = "detect_input"
    /\ file_type' = _detect_file_type(file_path)
    /\ pc' = "detect_done"
    /\ UNCHANGED <<file_path, file_type_arg, file, data, figures, ratios,
                   performance, analysis, exc, calls, result,
                   risk_indicators, history, apiVars>>

NextDetect == ApplyDetectFileType

SpecDetect == InitDetect /\ [][NextDetect]_vars

\* The file name of a path (what follows the last "/") and its extension:
\* what follows the last "." of the file name; a name without "." has none.
FileName(path) == SplitLast(path, "/")
HasExtension(path) == \E i \in 1 .. Len(FileName(path)) : FileName(path)[i] = "."
Extension(path) == SplitLast(FileName(path), ".")

\* C5 (as claimed): the detected type is decided by the extension of the
\* file name, compared without regard to case: pdf gives "pdf"; csv, xlsx
\* and xls give "csv"; any other name, and any name without an extension,
\* gives "unknown".
C5_TypeByExtension ==
    pc = "detect_done" =>
        file_type =
            IF HasExtension(file_path) /\ Lower(Extension(file_path)) = <<"pdf">>
            THEN "pdf"
            ELSE IF /\ HasExtension(file_path)
                    /\ Lower(Extension(file_path))
                           \in {<<"csv">>, <<"xlsx">>, <<"xls">>}
            THEN "csv"
            ELSE "unknown"

\* What holds instead: the claimed table, except that a path holding no "."
\* at all is compared as a whole with the extension words.
C5_TypeByTextAfterLastDot ==
    pc = "detect_done" =>
        LET dotless == \A i \in 1 .. Len(file_path) : file_path[i] # "."
            ext == IF dotless THEN Lower(file_path)
                   ELSE IF HasExtension(file_path)
                        THEN Lower(Extension(file_path))
                        ELSE <<>>
        IN  file_type = IF ext = <<"pdf">> THEN "pdf"
                        ELSE IF ext \in {<<"csv">>, <<"xlsx">>, <<"xls">>}
                        THEN "csv"
                        ELSE "unknown"

----------------------------------------------------------------------------
(* _generate_insights (custom_tool.py 288-329).  An insight is the text of  *)
(* its f-string and the value formatted into it; the rounding of the        *)
(* format (.1f, .2f) is not modelled.                                       *)

Insight(text, value) == [text |-> text, value |-> value]

\* Line 292 divides the revenue figure: TypeError for a statistics record.
_generate_insights_raises(f) == Has(f, "revenue") /\ ~IsNumber(f["revenue"])

\* Lines 291-293.
RevenueInsight(f) ==
    IF Has(f, "revenue")
    THEN <<Insight("Revenue: {revenue_cr:.2f} crores",
                   Rat(f["revenue"].value, 10000000))>>
    ELSE <<>>

\* Lines 295-302.
ProfitabilityInsight(r) ==
    IF Has(r, "net_margin")
    THEN LET margin == r["net_margin"]
         IN  IF RGt(margin, RInt(15))
             THEN <<Insight("Strong profitability with {margin:.1f}% net margin", margin)>>
             ELSE IF RGt(margin, RInt(5))
             THEN <<Insight("Moderate profitability with {margin:.1f}% net margin", margin)>>
             ELSE <<Insight("Low profitability with {margin:.1f}% net margin", margin)>>
    ELSE <<>>

\* Lines 304-311.
LeverageInsight(r) ==
    IF Has(r, "debt_to_equity")
    THEN LET de_ratio == r["debt_to_equity"]
         IN  IF RGt(de_ratio, <<3, 2>>)
             THEN <<Insight("High leverage with D/E ratio of {de_ratio:.2f}", de_ratio)>>
             ELSE IF RGt(de_ratio, <<1, 2>>)
             THEN <<Insight("Moderate leverage with D/E ratio of {de_ratio:.2f}", de_ratio)>>
             ELSE <<Insight("Conservative leverage with D/E ratio of {de_ratio:.2f}", de_ratio)>>
    ELSE <<>>

\* (The liquidity insight without its else branch.)
LiquidityInsight_StrongOnly(r) ==
    IF Has(r, "cash_to_debt") /\ RGt(r["cash_to_debt"], <<1, 2>>)
    THEN <<Insight("Strong liquidity position with cash-to-debt ratio of {cash_ratio:.2f}",
                   r["cash_to_debt"])>>
    ELSE <<>>
\* Lines 313-318.
LiquidityInsight(r) ==
    IF Has(r, "cash_to_debt")
    THEN LET cash_ratio == r["cash_to_debt"]
         IN  IF RGt(cash_ratio, <<1, 2>>)
             THEN <<Insight("Strong liquidity position with cash-to-debt ratio of {cash_ratio:.2f}", cash_ratio)>>
             ELSE <<Insight("Tight liquidity with cash-to-debt ratio of {cash_ratio:.2f}", cash_ratio)>>
    ELSE <<>>

\* Lines 320-327.
RoeInsight(r) ==
    IF Has(r, "roe")
    THEN LET roe == r["roe"]
         IN  IF RGt(roe, RInt(20))
             THEN <<Insight("Excellent ROE of {roe:.1f}%", roe)>>
             ELSE IF RGt(roe, RInt(10))
             THEN <<Insight("Good ROE of {roe:.1f}%", roe)>>
             ELSE <<Insight("Below average ROE of {roe:.1f}%", roe)>>
    ELSE <<>>

\* Lines 288-329: the insights are appended in this order.
_generate_insights(f, r) ==
    RevenueInsight(f) \o ProfitabilityInsight(r) \o LeverageInsight(r)
        \o LiquidityInsight(r) \o RoeInsight(r)

----------------------------------------------------------------------------
(* _identify_risks (custom_tool.py 404-425). *)

\* Line 422 compares the working_capital figure with 0: TypeError for a
\* statistics record.
_identify_risks_raises(f) ==
    Has(f, "working_capital") /\ ~IsNumber(f["working_capital"])

\* (The liquidity test written as `<= 0.2`.)
LiquidityRisk_Closed(r) ==
    IF Has(r, "cash_to_debt") /\ ~RGt(r["cash_to_debt"], <<1, 5>>)
    THEN <<"HIGH LIQUIDITY RISK: Low cash relative to debt obligations">>
    ELSE <<>>
\* Lines 407-408.
LiquidityRisk(r) ==
    IF Has(r, "cash_to_debt") /\ RLt(r["cash_to_debt"], <<1, 5>>)
    THEN <<"HIGH LIQUIDITY RISK: Low cash relative to debt obligations">>
    ELSE <<>>

\* Lines 410-411.
LeverageRisk(r) ==
    IF Has(r, "debt_to_equity") /\ RGt(r["debt_to_equity"], <<3, 2>>)
    THEN <<"HIGH LEVERAGE RISK: Excessive debt relative to equity">>
    ELSE <<>>

\* Lines 413-414.
ProfitabilityRisk(r) ==
    IF Has(r, "net_margin") /\ RLt(r["net_margin"], RInt(3))
    THEN <<"PROFITABILITY RISK: Very low profit margins">>
    ELSE <<>>

\* Lines 416-417.
EfficiencyRisk(r) ==
    IF Has(r, "roe") /\ RLt(r["roe"], RInt(8))
    THEN <<"EFFICIENCY RISK: Low return on equity">>
    ELSE <<>>

\* Lines 419-420.
AssetUtilizationRisk(r) ==
    IF Has(r, "roa") /\ RLt(r["roa"], RInt(5))
    THEN <<"ASSET UTILIZATION RISK: Poor asset productivity">>
    ELSE <<>>

\* (The working-capital test written as `<= 0`.)
WorkingCapitalRisk_NonPositive(f) ==
    IF Has(f, "working_capital") /\ f["working_capital"].value <= 0
    THEN <<"WORKING CAPITAL RISK: Negative working capital">>
    ELSE <<>>
\* Lines 422-423.
WorkingCapitalRisk(f) ==
    IF Has(f, "working_capital") /\ f["working_capital"].value < 0
    THEN <<"WORKING CAPITAL RISK: Negative working capital">>
    ELSE <<>>

_identify_risks(f, r) ==
    LiquidityRisk(r) \o LeverageRisk(r) \o ProfitabilityRisk(r)
        \o EfficiencyRisk(r) \o AssetUtilizationRisk(r) \o WorkingCapitalRisk(f)

\* The inputs of one call of _identify_risks: each of the five ratios it
\* reads is absent or within MaxRiskStep steps of the number it is compared
\* with (a step is 0.1 for cash_to_debt, 0.25 for debt_to_equity, one
\* percentage point for the others); working_capital is absent or a number.
MaxRiskStep == 1

RiskRatioKeys == {"cash_to_debt", "debt_to_equity", "net_margin", "roe", "roa"}

RiskRatioValues(k) ==
    {CASE k = "cash_to_debt" -> Rat(2 + j, 10)
       [] k = "debt_to_equity" -> Rat(6 + j, 4)
       [] k = "net_margin" -> RInt(3 + j)
       [] k = "roe" -> RInt(8 + j)
       [] k = "roa" -> RInt(5 + j) : j \in -MaxRiskStep .. MaxRiskStep}

InitRisks ==
    /\ pc = "risks_input"
    /\ \E wc \in {Absent} \cup {Num(n) : n \in -1 .. MaxFigure} :
          figures = Restrict("working_capital" :> wc)
    /\ \E cd \in {AbsentRatio} \cup RiskRatioValues("cash_to_debt"),
          de \in {AbsentRatio} \cup RiskRatioValues("debt_to_equity"),
          nm \in {AbsentRatio} \cup RiskRatioValues("net_margin"),
          re \in {AbsentRatio} \cup RiskRatioValues("roe"),
          ra \in {AbsentRatio} \cup RiskRatioValues("roa") :
            ratios = RestrictRatios(("cash_to_debt" :> cd)
                         @@ ("debt_to_equity" :> de) @@ ("net_margin" :> nm)
                         @@ ("roe" :> re) @@ ("roa" :> ra))
    /\ performance = NoPerformance
    /\ risk_indicators = <<>>
    /\ RunIdle
    /\ ApiIdle

ApplyIdentifyRisks ==
    /\ pc = "risks_input"
    /\ ~_identify_risks_raises(figures)
    /\ risk_indicators' = _identify_risks(figures, ratios)
    /\ pc' = "risks_done"
    /\ UNCHANGED <<figures, ratios, performance, runVars, apiVars>>

NextRisks == ApplyIdentifyRisks

SpecRisks == InitRisks /\ [][NextRisks]_vars

\* The six flags in the order of the checks, and the condition of each.
RiskFlags ==
    <<"HIGH LIQUIDITY RISK: Low cash relative to debt obligations",
      "HIGH LEVERAGE RISK: Excessive debt relative to equity",
      "PROFITABILITY RISK: Very low profit margins",
      "EFFICIENCY RISK: Low return on equity",
      "ASSET UTILIZATION RISK: Poor asset productivity",
      "WORKING CAPITAL RISK: Negative working capital">>

RiskCondition(i) ==
    CASE i = 1 -> Has(ratios, "cash_to_debt")
                      /\ RLt(ratios["cash_to_debt"], <<2, 10>>)
      [] i = 2 -> Has(ratios, "debt_to_equity")
                      /\ RGt(ratios["debt_to_equity"], <<15, 10>>)
      [] i = 3 -> Has(ratios, "net_margin") /\ RLt(ratios["net_margin"], RInt(3))
      [] i = 4 -> Has(ratios, "roe") /\ RLt(ratios["roe"], RInt(8))
      [] i = 5 -> Has(ratios, "roa") /\ RLt(ratios["roa"], RInt(5))
      [] i = 6 -> Has(figures, "working_capital")
                      /\ figures["working_capital"].value < 0

FlagIndex(text) == CHOOSE i \in 1 .. Len(RiskFlags) : RiskFlags[i] = text

\* C11: the list _identify_risks returns holds the flag of a condition
\* exactly when the condition holds (a ratio or figure that is absent
\* raises no flag), and the flags stand in the order of the checks, each at
\* most once.
C11_RiskFlagsMatchConditions ==
    pc = "risks_done" =>
        /\ \A j \in 1 .. Len(risk_indicators) :
              \E i \in 1 .. Len(RiskFlags) : risk_indicators[j] = RiskFlags[i]
        /\ \A i \in 1 .. Len(RiskFlags) :
              RiskCondition(i) <=>
                  \E j \in 1 .. Len(risk_indicators) :
                      risk_indicators[j] = RiskFlags[i]
        /\ \A j, k \in 1 .. Len(risk_indicators) :
              j < k => FlagIndex(risk_indicators[j]) < FlagIndex(risk_indicators[k])

\* All six conditions hold at once and all six flags are returned.
C11_Witness ==
    /\ pc = "risks_done"
    /\ \A i \in 1 .. Len(RiskFlags) : RiskCondition(i)
    /\ risk_indicators = RiskFlags

\* Two conditions that are not neighbours hold together; a ratio equal to
\* the number it is compared with raises no flag.
C11_WitnessSubset ==
    /\ pc = "risks_done"
    /\ risk_indicators = <<RiskFlags[2], RiskFlags[6]>>
    /\ DOMAIN ratios = RiskRatioKeys
    /\ ratios["cash_to_debt"] = <<1, 5>>
C11_WitnessNone ==
    /\ pc = "risks_done"
    /\ risk_indicators = <<>>
    /\ DOMAIN ratios = {}
    /\ ~Has(figures, "working_capital")

----------------------------------------------------------------------------
(* _generate_recommendations (custom_tool.py 427-461). *)

\* The risk texts in which a phrase occurs: of the six texts of
\* _identify_risks only the one that starts with the phrase.
TextsContaining(phrase) ==
    CASE phrase = "HIGH LIQUIDITY RISK" ->
             {"HIGH LIQUIDITY RISK: Low cash relative to debt obligations"}
      [] phrase = "HIGH LEVERAGE RISK" ->
             {"HIGH LEVERAGE RISK: Excessive debt relative to equity"}
      [] OTHER -> {}

\* (The phrase looked for in the first risk text only.)
InStrOfList_FirstOnly(phrase, risks) ==
    Len(risks) > 0 /\ risks[1] \in TextsContaining(phrase)
\* `phrase in str(risks)`
InStrOfList(phrase, risks) ==
    \E i \in 1 .. Len(risks) : risks[i] \in TextsContaining(phrase)

\* (The default recommendation appended whatever the list holds.)
DefaultIfEmpty_Always(recs) ==
    Append(recs, "Maintain current performance and explore growth opportunities")
\* Lines 458-459.
DefaultIfEmpty(recs) ==
    IF Len(recs) = 0
    THEN <<"Maintain current performance and explore growth opportunities">>
    ELSE recs

_generate_recommendations(a) ==
    LET perf == a.performance_summary
        r == a.financial_ratios
        risks == a.risk_indicators
        recs ==
               (IF RLt(perf.overall_score, RInt(60))
                THEN <<"PRIORITY: Comprehensive financial restructuring required">>
                ELSE <<>>)
            \o (IF perf.profitability_score < 70
                THEN <<"Focus on cost optimization and revenue enhancement strategies">>
                ELSE <<>>)
            \o (IF perf.liquidity_score < 70
                THEN <<"Improve cash flow management and reduce short-term debt">>
                ELSE <<>>)
            \o (IF Has(r, "debt_to_equity") /\ RGt(r["debt_to_equity"], RInt(1))
                THEN <<"Consider debt reduction or equity infusion to improve leverage">>
                ELSE <<>>)
            \o (IF perf.efficiency_score < 70
                THEN <<"Enhance operational efficiency and asset utilization">>
                ELSE <<>>)
            \o (IF InStrOfList("HIGH LIQUIDITY RISK", risks)
                THEN <<"URGENT: Arrange additional credit facilities or sell non-core assets">>
                ELSE <<>>)
            \o (IF InStrOfList("HIGH LEVERAGE RISK", risks)
                THEN <<"URGENT: Implement debt restructuring plan">>
                ELSE <<>>)
            \o (IF a.document_type = "quarterly_results"
                THEN <<"Monitor quarterly trends and seasonal variations">>
                ELSE <<>>)
    IN  DefaultIfEmpty(recs)

----------------------------------------------------------------------------
(* _analyze_financial_data (custom_tool.py 237-257).  time_period and       *)
(* company_name are copied from the data and trends stays empty: they are   *)
(* not modelled.                                                            *)

_analyze_financial_data_raises(d) ==
    \/ _calculate_ratios_raises(d.financial_figures)
    \/ _generate_insights_raises(d.financial_figures)
    \/ _identify_risks_raises(d.financial_figures)

\* The TypeError of the first step that raises: lines 252, 253, 255 in turn.
_analyze_financial_data_error(d) ==
    [type |-> "TypeError",
     message |->
         IF _calculate_ratios_raises(d.financial_figures)
         THEN "'>' not supported between instances of 'dict' and 'int'"
         ELSE IF _generate_insights_raises(d.financial_figures)
         THEN "unsupported operand type(s) for /: 'dict' and 'int'"
         ELSE "'<' not supported between instances of 'dict' and 'int'"]

_analyze_financial_data(d) ==
    LET f == d.financial_figures
        r == _calculate_ratios(f)
        a == [document_type |-> d.document_type,
              key_insights |-> _generate_insights(f, r),
              financial_ratios |-> r,
              performance_summary |-> _assess_performance(f, r),
              risk_indicators |-> _identify_risks(f, r),
              recommendations |-> <<>>]
    IN  [a EXCEPT !.recommendations = _generate_recommendations(a)]

\* The data of one call of _analyze_financial_data: a document type and
\* numeric figures, each absent or one of a few values that put the ratios
\* below, at and above the numbers the rules compare them with.
AnalyzeFigureValues(k) ==
    CASE k = "revenue" -> {Num(100)}
      [] k = "net_income" -> {Num(2), Num(20)}
      [] k = "cash" -> {Num(3), Num(6)}
      [] k = "debt" -> {Num(2), Num(15), Num(16)}
      [] k = "equity" -> {Num(2), Num(10), Num(100)}
      [] k = "working_capital" -> {Num(-1)}

AnalyzeKeys ==
    {"revenue", "net_income", "cash", "debt", "equity", "working_capital"}

AnalyzeDocumentTypes == {"financial_document", "quarterly_results"}

InitAnalyze ==
    /\ pc = "analyze_input"
    /\ \E d \in AnalyzeDocumentTypes,
          rev \in {Absent} \cup AnalyzeFigureValues("revenue"),
          ni \in {Absent} \cup AnalyzeFigureValues("net_income"),
          ca \in {Absent} \cup AnalyzeFigureValues("cash"),
          de \in {Absent} \cup AnalyzeFigureValues("debt"),
          eq \in {Absent} \cup AnalyzeFigureValues("equity"),
          wc \in {Absent} \cup AnalyzeFigureValues("working_capital") :
            data = [document_type |-> d,
                    financial_figures |->
                        Restrict(("revenue" :> rev) @@ ("net_income" :> ni)
                            @@ ("cash" :> ca) @@ ("debt" :> de)
                            @@ ("equity" :> eq) @@ ("working_capital" :> wc))]
    /\ figures = EmptyDict
    /\ ratios = EmptyDict
    /\ performance = NoPerformance
    /\ risk_indicators = <<>>
    /\ analysis = NoAnalysis
    /\ file_path = <<>>
    /\ file_type_arg = "auto"
    /\ file = NoFile
    /\ file_type = "auto"
    /\ exc = NoException
    /\ calls = <<>>
    /\ result = NoResult
    /\ history = <<>>
    /\ ApiIdle

ApplyAnalyzeFinancialData ==
    /\ pc = "analyze_input"
    /\ ~_analyze_financial_data_raises(data)
    /\ analysis' = _analyze_financial_data(data)
    /\ figures' = data.financial_figures
    /\ ratios' = analysis'.financial_ratios
    /\ performance' = analysis'.performance_summary
    /\ risk_indicators' = analysis'.risk_indicators
    /\ pc' = "analyze_done"
    /\ UNCHANGED <<file_path, file_type_arg, file, file_type, data, exc, calls,
                   result, history, apiVars>>

NextAnalyze == ApplyAnalyzeFinancialData

SpecAnalyze == InitAnalyze /\ [][NextAnalyze]_vars

DefaultRecommendation ==
    "Maintain current performance and explore growth opportunities"

\* The texts of the eight recommendation rules.
RuleRecommendations ==
    {"PRIORITY: Comprehensive financial restructuring required",
     "Focus on cost optimization and revenue enhancement strategies",
     "Improve cash flow management and reduce short-term debt",
     "Consider debt reduction or equity infusion to improve leverage",
     "Enhance operational efficiency and asset utilization",
     "URGENT: Arrange additional credit facilities or sell non-core assets",
     "URGENT: Implement debt restructuring plan",
     "Monitor quarterly trends and seasonal variations"}

InList(text, list) == \E i \in 1 .. Len(list) : list[i] = text

\* C12: the recommendation list is never empty; the default recommendation
\* is in it exactly when no rule put a recommendation of its own in it, and
\* then the default is the whole list.
C12_DefaultIffNoRuleFired ==
    pc = "analyze_done" =>
        LET recs == analysis.recommendations
        IN  /\ Len(recs) >= 1
            /\ \A i \in 1 .. Len(recs) :
                  recs[i] \in RuleRecommendations \cup {DefaultRecommendation}
            /\ InList(DefaultRecommendation, recs)
                  <=> ~\E t \in RuleRecommendations : InList(t, recs)
            /\ InList(DefaultRecommendation, recs)
                  => recs = <<DefaultRecommendation>>

\* An analysis in which no rule fires: every category is scored at least
\* 70, debt_to_equity is at most 1, no risk is flagged and the document is
\* not a quarterly result.
C12_Witness ==
    /\ pc = "analyze_done"
    /\ analysis.recommendations = <<DefaultRecommendation>>
    /\ analysis.risk_indicators = <<>>
    /\ performance.grade = "A"

\* An analysis in which several rules fire.
C12_WitnessRules ==
    /\ pc = "analyze_done"
    /\ Len(analysis.recommendations) >= 3
    /\ ~InList(DefaultRecommendation, analysis.recommendations)

\* C13: in every analysis the urgent-credit recommendation is present
\* exactly when a risk indicator contains "HIGH LIQUIDITY RISK", which is
\* exactly when cash_to_debt is present and below 0.2; the debt-restructuring
\* recommendation is present exactly when a risk indicator contains
\* "HIGH LEVERAGE RISK", which is exactly when debt_to_equity is present and
\* above 1.5.
C13_UrgentIffHighRisk ==
    pc = "analyze_done" =>
        LET recs == analysis.recommendations
            r == analysis.financial_ratios
            liquidity == \E i \in 1 .. Len(analysis.risk_indicators) :
                            analysis.risk_indicators[i]
                                \in TextsContaining("HIGH LIQUIDITY RISK")
            leverage == \E i \in 1 .. Len(analysis.risk_indicators) :
                            analysis.risk_indicators[i]
                                \in TextsContaining("HIGH LEVERAGE RISK")
        IN  /\ InList("URGENT: Arrange additional credit facilities or sell non-core assets", recs)
                  <=> liquidity
            /\ liquidity
                  <=> (Has(r, "cash_to_debt") /\ RLt(r["cash_to_debt"], <<2, 10>>))
            /\ InList("URGENT: Implement debt restructuring plan", recs)
                  <=> leverage
            /\ leverage
                  <=> (Has(r, "debt_to_equity")
                          /\ RGt(r["debt_to_equity"], <<15, 10>>))

\* Both risks are flagged, the leverage risk second in the list, and both
\* urgent recommendations are given.
C13_Witness ==
    /\ pc = "analyze_done"
    /\ Len(analysis.risk_indicators) >= 2
    /\ analysis.risk_indicators[1] \in TextsContaining("HIGH LIQUIDITY RISK")
    /\ analysis.risk_indicators[2] \in TextsContaining("HIGH LEVERAGE RISK")
    /\ InList("URGENT: Arrange additional credit facilities or sell non-core assets",
              analysis.recommendations)
    /\ InList("URGENT: Implement debt restructuring plan",
              analysis.recommendations)

\* cash_to_debt is exactly 0.2 and debt_to_equity exactly 1.5: neither risk
\* is flagged and neither urgent recommendation is given.
C13_WitnessAtThreshold ==
    /\ pc = "analyze_done"
    /\ Has(ratios, "cash_to_debt") /\ ratios["cash_to_debt"] = <<1, 5>>
    /\ Has(ratios, "debt_to_equity") /\ ratios["debt_to_equity"] = <<3, 2>>
    /\ ~InList("URGENT: Arrange additional credit facilities or sell non-core assets",
               analysis.recommendations)
    /\ ~InList("URGENT: Implement debt restructuring plan",
               analysis.recommendations)

\* The five signals of the insights, in the order claimed, and the texts
\* that report each.
SignalOrder ==
    <<"revenue", "net_margin", "debt_to_equity", "cash_to_debt", "roe">>

InsightSignal(text) ==
    CASE text = "Revenue: {revenue_cr:.2f} crores" -> "revenue"
      [] text \in {"Strong profitability with {margin:.1f}% net margin",
                   "Moderate profitability with {margin:.1f}% net margin",
                   "Low profitability with {margin:.1f}% net margin"}
            -> "net_margin"
      [] text \in {"High leverage with D/E ratio of {de_ratio:.2f}",
                   "Moderate leverage with D/E ratio of {de_ratio:.2f}",
                   "Conservative leverage with D/E ratio of {de_ratio:.2f}"}
            -> "debt_to_equity"
      [] text \in {"Strong liquidity position with cash-to-debt ratio of {cash_ratio:.2f}",
                   "Tight liquidity with cash-to-debt ratio of {cash_ratio:.2f}"}
            -> "cash_to_debt"
      [] text \in {"Excellent ROE of {roe:.1f}%", "Good ROE of {roe:.1f}%",
                   "Below average ROE of {roe:.1f}%"}
            -> "roe"
      [] OTHER -> "none"

SignalAvailable(s) ==
    IF s = "revenue" THEN Has(figures, s) ELSE Has(ratios, s)

AvailableSignals == SelectSeq(SignalOrder, SignalAvailable)

\* C22: the insight list has exactly one string for each available signal
\* (the revenue figure, net_margin, debt_to_equity, cash_to_debt, roe) and
\* none for an unavailable one, in that order whatever the values: its
\* length is the number of available signals and its i-th string reports
\* the i-th available signal.
C22_OneInsightPerSignalInOrder ==
    pc = "analyze_done" =>
        LET insights == analysis.key_insights
            available == AvailableSignals
        IN  /\ Len(insights) = Len(available)
            /\ \A i \in 1 .. Len(insights) :
                  InsightSignal(insights[i].text) = available[i]

\* All five signals are available: five insights.
C22_Witness ==
    /\ pc = "analyze_done"
    /\ AvailableSignals = SignalOrder
    /\ Len(analysis.key_insights) = 5
    /\ analysis.key_insights[4].text =
          "Tight liquidity with cash-to-debt ratio of {cash_ratio:.2f}"

\* Some signals are unavailable: the insights of the others keep the order.
C22_WitnessSome ==
    /\ pc = "analyze_done"
    /\ AvailableSignals = <<"revenue", "cash_to_debt">>
    /\ Len(analysis.key_insights) = 2

\* No signal is available: no insight.
C22_WitnessNone ==
    /\ pc = "analyze_done"
    /\ AvailableSignals = <<>>
    /\ analysis.key_insights = <<>>

\* The recommendations of an analysis without a ratio.
NoRatioRecommendations ==
    <<"PRIORITY: Comprehensive financial restructuring required",
      "Focus on cost optimization and revenue enhancement strategies",
      "Improve cash flow management and reduce short-term debt",
      "Enhance operational efficiency and asset utilization">>

\* C29: when the ratio set is empty the recommendations are exactly the
\* restructuring, cost, cash-flow and efficiency recommendations in that
\* order, followed by the quarterly-monitoring line for a quarterly_results
\* document, and never the default; in every analysis the default
\* recommendation is emitted only if net_margin, cash_to_debt and roe are
\* all present.
C29_NoRatioRecommendations ==
    pc = "analyze_done" =>
        /\ ratios = EmptyDict =>
              analysis.recommendations =
                  NoRatioRecommendations
                      \o (IF analysis.document_type = "quarterly_results"
                          THEN <<"Monitor quarterly trends and seasonal variations">>
                          ELSE <<>>)
        /\ InList(DefaultRecommendation, analysis.recommendations) =>
              /\ Has(ratios, "net_margin")
              /\ Has(ratios, "cash_to_debt")
              /\ Has(ratios, "roe")

\* A quarterly document with figures but no computable ratio: five
\* recommendations.
C29_Witness ==
    /\ pc = "analyze_done"
    /\ figures # EmptyDict
    /\ ratios = EmptyDict
    /\ analysis.document_type = "quarterly_results"
    /\ Len(analysis.recommendations) = 5

\* The default recommendation, with the three ratios present.
C29_WitnessDefault ==
    /\ pc = "analyze_done"
    /\ InList(DefaultRecommendation, analysis.recommendations)
    /\ {"net_margin", "cash_to_debt", "roe"} \subseteq DOMAIN ratios
----------------------------------------------------------------------------
(* The tabular extractor (custom_tool.py 96-115, 195-235).  The DataFrame   *)
(* is a dict from column header to the column's cells, in row order; all    *)
(* columns are numeric and a missing cell is NaN.  volatility (the sample   *)
(* standard deviation) is not modelled: nothing in the tool reads it.       *)

\* The missing cell: a number no cell holds.
NaN == -1000

\* Line 203: dropna() keeps the cells that are not missing, in row order.
RECURSIVE dropna(_)
dropna(column) ==
    IF column = <<>> THEN <<>>
    ELSE IF column[1] = NaN THEN dropna(Tail(column))
    ELSE <<column[1]>> \o dropna(Tail(column))

\* str.lower() of a column header.
LowerHeader(col) ==
    CASE col = "Revenue" -> "revenue"
      [] col = "Year" -> "year"
      [] OTHER -> col

\* The entries of financial_keywords (line 197) that occur in the text.
KeywordsIn(col_lower) ==
    CASE col_lower = "revenue" -> {"revenue"}
      [] col_lower = "net_income" -> {"income"}
      [] OTHER -> {}

\* (The change divided by the latest value.)
_calculate_growth_rate_ByLatest(series) ==
    IF Len(series) < 2 THEN RInt(0)
    ELSE LET latest == series[Len(series)]
             previous == series[Len(series) - 1]
         IN  IF latest # 0
             THEN RMul(RDiv(RInt(latest - previous), RInt(latest)), RInt(100))
             ELSE RInt(0)
\* Lines 215-224.
_calculate_growth_rate(series) ==
    IF Len(series) < 2 THEN RInt(0)
    ELSE LET latest == series[Len(series)]
             previous == series[Len(series) - 1]
         IN  IF previous # 0
             THEN RMul(RDiv(RInt(latest - previous), RInt(previous)), RInt(100))
             ELSE RInt(0)

\* (The whole series tested instead of its last three values.)
_identify_trend_WholeSeries(series) ==
    IF Len(series) < 3 THEN "insufficient_data"
    ELSE IF \A i \in 1 .. Len(series) - 1 : series[i] <= series[i + 1]
    THEN "increasing"
    ELSE IF \A i \in 1 .. Len(series) - 1 : series[i] >= series[i + 1]
    THEN "decreasing"
    ELSE "volatile"
\* Lines 226-235: is_monotonic_increasing is "never decreasing".
_identify_trend(series) ==
    IF Len(series) < 3 THEN "insufficient_data"
    ELSE LET n == Len(series)
         IN  IF series[n - 2] <= series[n - 1] /\ series[n - 1] <= series[n]
             THEN "increasing"
             ELSE IF series[n - 2] >= series[n - 1] /\ series[n - 1] >= series[n]
             THEN "decreasing"
             ELSE "volatile"

\* Lines 205-211.
ColumnStats(series) ==
    [kind |-> "stats",
     latest_value |-> series[Len(series)],
     previous_value |-> IF Len(series) > 1 THEN series[Len(series) - 1]
                        ELSE series[Len(series)],
     growth_rate |-> _calculate_growth_rate(series),
     trend |-> _identify_trend(series)]

\* Lines 195-213.
_extract_csv_financial_figures(df) ==
    LET cols == {c \in DOMAIN df : /\ KeywordsIn(LowerHeader(c)) # {}
                                   /\ Len(dropna(df[c])) > 0}
    IN  [c \in cols |-> ColumnStats(dropna(df[c]))]

\* Lines 98-111.
_extract_from_csv(f) ==
    [document_type |-> "csv_data",
     columns |-> DOMAIN f.dataframe,
     time_series |-> \E c \in DOMAIN f.dataframe :
                         LowerHeader(c) \in {"date", "year", "quarter", "month"},
     financial_figures |-> _extract_csv_financial_figures(f.dataframe)]

\* pd.read_csv raises on what is not delimited text.
_extract_from_csv_raises(f) == f.format # "csv"

\* The tables of one call of _extract_csv_financial_figures: a Year and a
\* Revenue column of at most MaxSeriesLen rows, whose cells are missing or
\* in -1 .. MaxSeriesValue; and the table of the specification's example.
MaxSeriesLen == 4
MaxSeriesValue == 3

SeriesCells == {NaN} \cup (-1 .. MaxSeriesValue)

Columns ==
    UNION {[1 .. n -> SeriesCells] : n \in 0 .. MaxSeriesLen}
        \cup {<<1000, 1200>>}

InitCsv ==
    /\ pc = "csv_read"
    /\ \E column \in Columns :
          file = [format |-> "csv",
                  dataframe |->
                      ("Year" :> [i \in 1 .. Len(column) |-> 2020 + i])
                          @@ ("Revenue" :> column)]
    /\ data = NoData
    /\ figures = EmptyDict
    /\ ratios = EmptyDict
    /\ performance = NoPerformance
    /\ risk_indicators = <<>>
    /\ analysis = NoAnalysis
    /\ file_path = <<"a", ".", "csv">>
    /\ file_type_arg = "csv"
    /\ file_type = "csv"
    /\ exc = NoException
    /\ calls = <<>>
    /\ result = NoResult
    /\ history = <<>>
    /\ ApiIdle

\* Line 109.
ApplyExtractCsvFinancialFigures ==
    /\ pc = "csv_read"
    /\ figures' = _extract_csv_financial_figures(file.dataframe)
    /\ pc' = "csv_extracted"
    /\ UNCHANGED <<file_path, file_type_arg, file, file_type, data, ratios,
                   performance, analysis, exc, calls, result, risk_indicators,
                   history, apiVars>>

NextCsv == ApplyExtractCsvFinancialFigures

SpecCsv == InitCsv /\ [][NextCsv]_vars

\* The values of the Revenue column that are not missing, in row order.
Retained == SelectSeq(file.dataframe["Revenue"], LAMBDA v : v # NaN)

\* The last, the second and the third value from the end.
FromEnd(series, k) == series[Len(series) + 1 - k]

\* C18: the trend of a column is decided by its last three retained values:
\* insufficient_data when fewer than three are retained; otherwise
\* increasing when none of the three is below the one before it, else
\* decreasing when none is above the one before it, else volatile.
C18_TrendOfLastThree ==
    (pc = "csv_extracted" /\ Len(Retained) >= 1) =>
        /\ DOMAIN figures = {"Revenue"}
        /\ figures["Revenue"].trend =
              IF Len(Retained) < 3 THEN "insufficient_data"
              ELSE IF /\ FromEnd(Retained, 3) <= FromEnd(Retained, 2)
                      /\ FromEnd(Retained, 2) <= FromEnd(Retained, 1)
              THEN "increasing"
              ELSE IF /\ FromEnd(Retained, 3) >= FromEnd(Retained, 2)
                      /\ FromEnd(Retained, 2) >= FromEnd(Retained, 1)
              THEN "decreasing"
              ELSE "volatile"

\* Four values that rise only over the last three: increasing.
C18_Witness ==
    /\ pc = "csv_extracted"
    /\ file.dataframe["Revenue"] = <<3, 1, 2, 3>>
    /\ figures["Revenue"].trend = "increasing"

\* The examples of the claim, and a column with a missing cell.
C18_WitnessIncreasing ==
    /\ pc = "csv_extracted"
    /\ file.dataframe["Revenue"] = <<1, 2, 3>>
    /\ figures["Revenue"].trend = "increasing"
C18_WitnessDecreasing ==
    /\ pc = "csv_extracted"
    /\ file.dataframe["Revenue"] = <<3, 2, 1>>
    /\ figures["Revenue"].trend = "decreasing"
C18_WitnessVolatile ==
    /\ pc = "csv_extracted"
    /\ file.dataframe["Revenue"] = <<1, 3, 2>>
    /\ figures["Revenue"].trend = "volatile"
C18_WitnessShort ==
    /\ pc = "csv_extracted"
    /\ file.dataframe["Revenue"] = <<1, 2>>
    /\ figures["Revenue"].trend = "insufficient_data"
C18_WitnessConstant ==
    /\ pc = "csv_extracted"
    /\ file.dataframe["Revenue"] = <<2, 2, 2>>
    /\ figures["Revenue"].trend = "increasing"
C18_WitnessMissingCell ==
    /\ pc = "csv_extracted"
    /\ file.dataframe["Revenue"] = <<1, 2, NaN, 3>>
    /\ figures["Revenue"].trend = "increasing"

\* C19: for a financial column with a retained value, latest_value is the
\* last retained value, previous_value the one before it (the last one when
\* there is no other), and growth_rate is (latest - previous) / previous
\* * 100 when two values are retained and previous is not 0, and 0
\* otherwise.
C19_LatestPreviousGrowth ==
    (pc = "csv_extracted" /\ Len(Retained) >= 1) =>
        LET stats == figures["Revenue"]
            latest == FromEnd(Retained, 1)
            previous == IF Len(Retained) >= 2 THEN FromEnd(Retained, 2)
                        ELSE latest
        IN  /\ stats.latest_value = latest
            /\ stats.previous_value = previous
            /\ IF Len(Retained) >= 2 /\ previous # 0
               THEN REq(RMul(stats.growth_rate, RInt(previous)),
                        RInt((latest - previous) * 100))
               ELSE stats.growth_rate = RInt(0)

\* The example: 1000 then 1200 is a growth of 20.
C19_Witness ==
    /\ pc = "csv_extracted"
    /\ file.dataframe["Revenue"] = <<1000, 1200>>
    /\ figures["Revenue"].latest_value = 1200
    /\ figures["Revenue"].previous_value = 1000
    /\ figures["Revenue"].growth_rate = RInt(20)

\* One retained value; a previous value of 0; a negative previous value.
C19_WitnessSingle ==
    /\ pc = "csv_extracted"
    /\ file.dataframe["Revenue"] = <<NaN, 3>>
    /\ figures["Revenue"].latest_value = 3
    /\ figures["Revenue"].previous_value = 3
    /\ figures["Revenue"].growth_rate = RInt(0)
C19_WitnessZeroPrevious ==
    /\ pc = "csv_extracted"
    /\ file.dataframe["Revenue"] = <<0, 3>>
    /\ figures["Revenue"].growth_rate = RInt(0)
C19_WitnessNegativePrevious ==
    /\ pc = "csv_extracted"
    /\ file.dataframe["Revenue"] = <<-1, 1>>
    /\ figures["Revenue"].growth_rate = RInt(-200)

----------------------------------------------------------------------------
(* The document extractor (custom_tool.py 60-94).  In a call of _run a PDF  *)
(* file is described by what _identify_document_type and                    *)
(* _extract_financial_figures find in its text; the tables, time_period and *)
(* company_name are not modelled.                                           *)

_extract_from_pdf(f) ==
    [document_type |-> f.document_type,
     financial_figures |-> f.financial_figures]

\* pdfplumber.open raises on what is not a PDF file; line 92 re-raises.
_extract_from_pdf_raises(f) == f.format # "pdf"

----------------------------------------------------------------------------
(* The text of a PDF document (custom_tool.py 84-86, 117-170).  A text is a *)
(* sequence of pieces separated by white space.  A piece is a phrase of the *)
(* vocabulary below; what str.lower(), the `in` test and the regular        *)
(* expressions do with a piece is tabled per piece.  The pieces are chosen  *)
(* so that no keyword, scale word or label straddles two pieces.            *)

\* Pieces that name a kind of document, and a piece that names none.
DocPieces ==
    {"Balance Sheet", "Cash Flow Statement", "P&L", "Q3", "Annual Report",
     "Notes"}

\* Scale words, figure labels, numerals, and a piece that is none of them.
ScalePieces == {"Crores", "lakh", "thousands", "million", "Billion"}
LabelPieces == {"Revenue:", "Net Profit"}
NumeralPieces == {"1", "0,2", ","}
FigurePieces == ScalePieces \cup LabelPieces \cup NumeralPieces \cup {"Limited"}

\* str.lower() of a piece, and of a text.
LowerOf(piece) ==
    CASE piece = "Balance Sheet" -> "balance sheet"
      [] piece = "Cash Flow Statement" -> "cash flow statement"
      [] piece = "P&L" -> "p&l"
      [] piece = "Q3" -> "q3"
      [] piece = "Annual Report" -> "annual report"
      [] piece = "Notes" -> "notes"
      [] piece = "Crores" -> "crores"
      [] piece = "Billion" -> "billion"
      [] piece = "Revenue:" -> "revenue:"
      [] piece = "Net Profit" -> "net profit"
      [] piece = "Limited" -> "limited"
      [] OTHER -> piece

LowerText(text) == [i \in 1 .. Len(text) |-> LowerOf(text[i])]

\* The strings of the keyword lists (lines 121-125) and of the multiplier
\* table (lines 20-29) that are substrings of a lower-case piece.
SubstringsOf(piece_lower) ==
    CASE piece_lower = "balance sheet" -> {"balance sheet"}
      [] piece_lower = "cash flow statement" ->
             {"cash flow", "cash flow statement"}
      [] piece_lower = "p&l" -> {"p&l"}
      [] piece_lower = "q3" -> {"q3"}
      [] piece_lower = "annual report" -> {"annual report"}
      [] piece_lower = "crores" -> {"crore", "crores"}
      [] piece_lower = "lakh" -> {"lakh"}
      [] piece_lower = "thousands" -> {"thousand", "thousands"}
      [] piece_lower = "million" -> {"million"}
      [] piece_lower = "billion" -> {"billion"}
      [] OTHER -> {}

\* `word in text_lower`
InText(word, text_lower) ==
    \E i \in 1 .. Len(text_lower) : word \in SubstringsOf(text_lower[i])

\* (A loop that keeps the last entry that passes its test.)
FirstOf_Last(hits) == CHOOSE i \in hits : \A j \in hits : j <= i
\* A loop over the entries of a dict that returns at the first entry that
\* passes its test (lines 128-130, 167-169): the least index of the entries
\* that pass.
FirstOf(hits) == CHOOSE i \in hits : \A j \in hits : i <= j

\* Lines 120-126, in the order of the dict.
DocumentPatterns ==
    << <<"balance_sheet", {"balance sheet", "statement of financial position",
                           "assets and liabilities"}>>,
       <<"profit_loss", {"profit and loss", "p&l", "income statement",
                         "statement of profit and loss"}>>,
       <<"cash_flow", {"cash flow", "statement of cash flows",
                       "cash flow statement"}>>,
       <<"quarterly_results", {"quarterly results", "quarterly report",
                               "q1", "q2", "q3", "q4"}>>,
       <<"annual_report", {"annual report", "annual accounts",
                           "director's report"}>> >>

\* Lines 117-132.
_identify_document_type(text) ==
    LET text_lower == LowerText(text)
        hits == {i \in 1 .. Len(DocumentPatterns) :
                    \E keyword \in DocumentPatterns[i][2] :
                        InText(keyword, text_lower)}
    IN  IF hits = {} THEN "financial_document"
        ELSE DocumentPatterns[FirstOf(hits)][1]

\* (The dict with the lakh entries first.)
indian_multipliers_LakhFirst ==
    << <<"lakh", 100000>>, <<"lakhs", 100000>>,
       <<"crore", 10000000>>, <<"crores", 10000000>>,
       <<"thousand", 1000>>, <<"thousands", 1000>>,
       <<"million", 1000000>>, <<"millions", 1000000>>,
       <<"billion", 1000000000>>, <<"billions", 1000000000>> >>
\* Lines 17-30, in the order of the dict.
indian_multipliers ==
    << <<"crore", 10000000>>, <<"crores", 10000000>>,
       <<"lakh", 100000>>, <<"lakhs", 100000>>,
       <<"thousand", 1000>>, <<"thousands", 1000>>,
       <<"million", 1000000>>, <<"millions", 1000000>>,
       <<"billion", 1000000000>>, <<"billions", 1000000000>> >>

\* The metric key whose pattern (lines 139-147) has a label alternative
\* that matches the piece, ignoring case; "none" for the other pieces.
LabelKey(piece) ==
    CASE LowerOf(piece) = "revenue:" -> "revenue"
      [] LowerOf(piece) = "net profit" -> "net_income"
      [] OTHER -> "none"

\* The pieces the group ([\d,]+\.?\d*) captures.
IsNumeral(piece) == piece \in {"1", "0,2", ","}

\* The entries of indian_multipliers whose name occurs in the text.
MultiplierHits(text) ==
    LET text_lower == LowerText(text)
    IN  {i \in 1 .. Len(indian_multipliers) :
            InText(indian_multipliers[i][1], text_lower)}

\* (The scale word that trails the figure of the metric, when there is one.)
_find_multiplier_Trailing(text, metric) ==
    LET hits == MultiplierHits(text)
        trailing == {i \in 3 .. Len(text) :
                        /\ LabelKey(text[i - 2]) = metric
                        /\ IsNumeral(text[i - 1])
                        /\ MultiplierHits(<<text[i]>>) # {}}
    IN  IF trailing # {}
        THEN indian_multipliers[
                 FirstOf(MultiplierHits(<<text[FirstOf(trailing)]>>))][2]
        ELSE IF hits = {} THEN 100000
        ELSE indian_multipliers[FirstOf(hits)][2]
\* (No default: a text without a scale word is left unscaled.)
_find_multiplier_NoDefault(text, metric) ==
    LET hits == MultiplierHits(text)
    IN  IF hits = {} THEN 1 ELSE indian_multipliers[FirstOf(hits)][2]
\* Lines 165-170.
_find_multiplier(text, metric) ==
    LET hits == MultiplierHits(text)
    IN  IF hits = {} THEN 100000 ELSE indian_multipliers[FirstOf(hits)][2]

\* re.findall (line 151): the captured numerals, in the order of the text.
\* A match is a label of the key followed by a numeral.
RECURSIVE FindAll(_, _, _)
FindAll(text, key, i) ==
    IF i >= Len(text) THEN <<>>
    ELSE IF LabelKey(text[i]) = key /\ IsNumeral(text[i + 1])
    THEN <<text[i + 1]>> \o FindAll(text, key, i + 2)
    ELSE FindAll(text, key, i + 1)

\* Line 154: replace(',', '').
StripCommas(numeral) ==
    CASE numeral = "1" -> "1"
      [] numeral = "0,2" -> "02"
      [] numeral = "," -> ""

\* float(value_str) raises ValueError for the empty string.
FloatRaises(value_str) == value_str = ""
Float(value_str) ==
    CASE value_str = "1" -> 1
      [] value_str = "02" -> 2

\* (A key without a match stored as 0.)
FigureEntry_ZeroDefault(text, key) ==
    LET matches == FindAll(text, key, 1)
    IN  IF matches = <<>> THEN key :> Num(0)
        ELSE IF FloatRaises(StripCommas(matches[1])) THEN EmptyDict
        ELSE key :> Num(Float(StripCommas(matches[1]))
                            * _find_multiplier(text, key))
\* Lines 151-161: what one turn of the loop adds to figures.
FigureEntry(text, key) ==
    LET matches == FindAll(text, key, 1)
    IN  IF matches = <<>> THEN EmptyDict
        ELSE IF FloatRaises(StripCommas(matches[1])) THEN EmptyDict
        ELSE key :> Num(Float(StripCommas(matches[1]))
                            * _find_multiplier(text, key))

\* Lines 134-163.
_extract_financial_figures(text) ==
    FigureEntry(text, "revenue") @@ FigureEntry(text, "net_income")
        @@ FigureEntry(text, "ebitda") @@ FigureEntry(text, "total_assets")
        @@ FigureEntry(text, "total_liabilities") @@ FigureEntry(text, "equity")
        @@ FigureEntry(text, "debt") @@ FigureEntry(text, "cash")
        @@ FigureEntry(text, "working_capital")

\* The texts: at most MaxDocLen pieces that name documents, at most
\* MaxTextLen pieces of figures, or a revenue and a net profit figure with
\* a scale word after each.
MaxDocLen == 3
MaxTextLen == 4

ReportTexts ==
    {<<"Revenue:", n1, s1, "Net Profit", n2, s2>> :
        n1 \in NumeralPieces, s1 \in ScalePieces,
        n2 \in NumeralPieces, s2 \in ScalePieces}

Texts ==
    UNION {[1 .. n -> DocPieces] : n \in 0 .. MaxDocLen}
        \cup UNION {[1 .. n -> FigurePieces] : n \in 0 .. MaxTextLen}
        \cup ReportTexts

\* The state of _extract_from_pdf after line 84.
InitText ==
    /\ pc = "text_read"
    /\ \E t \in Texts :
          data = [text_content |-> t, document_type |-> "unknown",
                  financial_figures |-> EmptyDict]
    /\ figures = EmptyDict
    /\ ratios = EmptyDict
    /\ performance = NoPerformance
    /\ risk_indicators = <<>>
    /\ analysis = NoAnalysis
    /\ file_path = <<>>
    /\ file_type_arg = "auto"
    /\ file = NoFile
    /\ file_type = "auto"
    /\ exc = NoException
    /\ calls = <<>>
    /\ result = NoResult
    /\ history = <<>>
    /\ ApiIdle

\* Line 85.
ApplyIdentifyDocumentType ==
    /\ pc = "text_read"
    /\ data' = [data EXCEPT
                   !.document_type = _identify_document_type(data.text_content)]
    /\ pc' = "text_typed"
    /\ UNCHANGED <<file_path, file_type_arg, file, file_type, figures, ratios,
                   performance, analysis, exc, calls, result, risk_indicators,
                   history, apiVars>>

\* Line 86.
ApplyExtractFinancialFigures ==
    /\ pc = "text_typed"
    /\ data' = [data EXCEPT
                   !.financial_figures =
                       _extract_financial_figures(data.text_content)]
    /\ figures' = data'.financial_figures
    /\ pc' = "text_extracted"
    /\ UNCHANGED <<file_path, file_type_arg, file, file_type, ratios,
                   performance, analysis, exc, calls, result, risk_indicators,
                   history, apiVars>>

\* Line 252, reached from line 43 of _run: the ratios of the extracted
\* figures, which are numbers.
ApplyCalculateRatiosOfText ==
    /\ pc = "text_extracted"
    /\ ratios' = _calculate_ratios(figures)
    /\ pc' = "text_ratios"
    /\ UNCHANGED <<figures, performance, risk_indicators, runVars, apiVars>>

NextText ==
    \/ ApplyIdentifyDocumentType
    \/ ApplyExtractFinancialFigures
    \/ ApplyCalculateRatiosOfText

SpecText == InitText /\ [][NextText]_vars

\* The categories in their priority order, and the category a piece of the
\* vocabulary names.
CategoryPriority ==
    <<"balance_sheet", "profit_loss", "cash_flow", "quarterly_results",
      "annual_report">>

CategoryNamedBy(piece) ==
    CASE piece = "Balance Sheet" -> "balance_sheet"
      [] piece = "P&L" -> "profit_loss"
      [] piece = "Cash Flow Statement" -> "cash_flow"
      [] piece = "Q3" -> "quarterly_results"
      [] piece = "Annual Report" -> "annual_report"
      [] OTHER -> "none"

CategoriesNamedIn(text) == {CategoryNamedBy(text[i]) : i \in 1 .. Len(text)}

\* C14: the document type is the first category, in the order
\* balance_sheet, profit_loss, cash_flow, quarterly_results, annual_report,
\* of which a keyword occurs in the text whatever its case and position; a
\* text in which no keyword occurs is a financial_document.
C14_FirstCategoryInPriorityOrder ==
    pc \in {"text_typed", "text_extracted"} =>
        LET named == CategoriesNamedIn(data.text_content)
        IN  IF \A i \in 1 .. Len(CategoryPriority) :
                   CategoryPriority[i] \notin named
            THEN data.document_type = "financial_document"
            ELSE \E i \in 1 .. Len(CategoryPriority) :
                    /\ CategoryPriority[i] \in named
                    /\ \A j \in 1 .. i - 1 : CategoryPriority[j] \notin named
                    /\ data.document_type = CategoryPriority[i]

\* A text that mentions the cash flow before the balance sheet is a
\* balance sheet.
C14_Witness ==
    /\ pc = "text_typed"
    /\ data.text_content = <<"Cash Flow Statement", "Balance Sheet">>
    /\ data.document_type = "balance_sheet"

\* A text without a keyword, and a text with keywords of three categories.
C14_WitnessDefault ==
    /\ pc = "text_typed"
    /\ data.text_content = <<"Notes", "Notes">>
    /\ data.document_type = "financial_document"
C14_WitnessThree ==
    /\ pc = "text_typed"
    /\ data.text_content = <<"Annual Report", "Q3", "P&L">>
    /\ data.document_type = "profit_loss"

\* The multiplier of the scale word of a piece, the numeral a piece
\* spells, and where in a text a figure of a key is spelled: a label of the
\* key with a numeral next to it.
MultiplierOfPiece(piece) ==
    CASE piece = "thousands" -> 1000
      [] piece = "lakh" -> 100000
      [] piece = "million" -> 1000000
      [] piece = "Crores" -> 10000000
      [] piece = "Billion" -> 1000000000

Parses(piece) == piece \in {"1", "0,2"}
NumeralValue(piece) == IF piece = "1" THEN 1 ELSE 2

LabelOf(key) ==
    CASE key = "revenue" -> "Revenue:"
      [] key = "net_income" -> "Net Profit"
      [] OTHER -> "no label"

FigurePositions(text, key) ==
    {i \in 1 .. Len(text) - 1 :
        text[i] = LabelOf(key) /\ text[i + 1] \in NumeralPieces}

Least(S) == CHOOSE i \in S : \A j \in S : i <= j

FirstNumeral(text, key) == text[Least(FigurePositions(text, key)) + 1]

ScalePositions(text) == {i \in 1 .. Len(text) : text[i] \in ScalePieces}

\* C15 (as claimed): the figures of a text in which scale words occur are
\* scaled by the multiplier of the scale word that comes first in the text.
C15_ScaleWordFirstInText ==
    pc = "text_extracted" =>
        LET text == data.text_content
        IN  ScalePositions(text) # {} =>
                \A key \in DOMAIN figures :
                    figures[key].value =
                        NumeralValue(FirstNumeral(text, key))
                            * MultiplierOfPiece(
                                  text[Least(ScalePositions(text))])

\* The order in which the scale words are looked for.
ScalePriority == <<"Crores", "lakh", "thousands", "million", "Billion">>

PriorityScalePiece(text) ==
    ScalePriority[Least({i \in 1 .. Len(ScalePriority) :
                            \E j \in ScalePositions(text) :
                                text[j] = ScalePriority[i]})]

\* C15 (amended): the figures of a text in which scale words occur are
\* scaled by the multiplier of the first scale word, in the order crore(s),
\* lakh(s), thousand(s), million(s), billion(s), that occurs anywhere in the
\* text, whatever the positions of the scale words.
C15_ScaleWordFirstInDictOrder ==
    pc = "text_extracted" =>
        LET text == data.text_content
            scale == MultiplierOfPiece(PriorityScalePiece(text))
        IN  ScalePositions(text) # {} =>
                /\ \A key \in MetricKeys : _find_multiplier(text, key) = scale
                /\ \A key \in DOMAIN figures :
                      figures[key].value =
                          NumeralValue(FirstNumeral(text, key)) * scale

\* "lakh" comes before "Crores" in the text, and the figure is in crores.
C15_Witness ==
    /\ pc = "text_extracted"
    /\ data.text_content = <<"lakh", "Crores", "Revenue:", "1">>
    /\ figures = ("revenue" :> Num(10000000))

\* "million" comes before "thousands": the figure is in thousands.
C15_WitnessThousands ==
    /\ pc = "text_extracted"
    /\ data.text_content = <<"Revenue:", "0,2", "million", "thousands">>
    /\ figures = ("revenue" :> Num(2000))

\* C16: when no scale word occurs in the text the multiplier is 100000 for
\* every metric key, and every extracted figure is its numeral times 100000.
C16_DefaultMultiplierIsLakh ==
    pc = "text_extracted" =>
        LET text == data.text_content
        IN  ScalePositions(text) = {} =>
                /\ \A key \in MetricKeys : _find_multiplier(text, key) = 100000
                /\ \A key \in DOMAIN figures :
                      figures[key].value =
                          NumeralValue(FirstNumeral(text, key)) * 100000

\* Two figures in a text without a scale word.
C16_Witness ==
    /\ pc = "text_extracted"
    /\ data.text_content = <<"Revenue:", "0,2", "Net Profit", "1">>
    /\ figures = ("revenue" :> Num(200000)) @@ ("net_income" :> Num(100000))

\* The multiplier a text is scaled by.
ScaleOfText(text) ==
    IF ScalePositions(text) = {} THEN 100000
    ELSE MultiplierOfPiece(PriorityScalePiece(text))

\* C17: a metric key is in the figure set exactly when its pattern matches
\* and the numeral of the first match parses; its value is then that numeral
\* times the multiplier.  A key without a match, or whose first numeral does
\* not parse, is absent, and no key is stored as 0 for it.
C17_UnmatchedKeyIsAbsent ==
    pc = "text_extracted" =>
        LET text == data.text_content
        IN  \A key \in MetricKeys :
                IF /\ FigurePositions(text, key) # {}
                   /\ Parses(FirstNumeral(text, key))
                THEN /\ Has(figures, key)
                     /\ figures[key] = Num(NumeralValue(FirstNumeral(text, key))
                                               * ScaleOfText(text))
                ELSE ~Has(figures, key)

\* The first numeral after "Revenue:" does not parse and no other key but
\* net_income is matched: net_income is the only figure.
C17_Witness ==
    /\ pc = "text_extracted"
    /\ data.text_content = <<"Revenue:", ",", "Net Profit", "0,2">>
    /\ figures = ("net_income" :> Num(200000))

\* The first match is used: a second, parsable match does not bring back a
\* key whose first numeral does not parse, and does not replace a first
\* numeral that parses.
C17_WitnessFirstMatch ==
    /\ pc = "text_extracted"
    /\ data.text_content = <<"Revenue:", ",", "Revenue:", "1">>
    /\ figures = EmptyDict
C17_WitnessFirstValue ==
    /\ pc = "text_extracted"
    /\ data.text_content = <<"Net Profit", "0,2", "Net Profit", "1">>
    /\ figures = ("net_income" :> Num(200000))

\* The multipliers of indian_multipliers, and the figures of a text before
\* they are scaled: the first numeral of each key.
Multipliers == {1000, 100000, 1000000, 10000000, 1000000000}

UnscaledFigures(text) ==
    [key \in DOMAIN figures |-> Num(NumeralValue(FirstNumeral(text, key)))]

\* C27: within one extraction every figure is its numeral times one and the
\* same multiplier, whatever the metric key and whatever scale word trails
\* the figure; when "crore" occurs anywhere in the text that multiplier is
\* 10000000 for every figure, even if another scale word occurs too; and
\* the ratios computed of the figures are those of the unscaled numerals.
C27_OneMultiplierPerDocument ==
    pc \in {"text_extracted", "text_ratios"} =>
        LET text == data.text_content
        IN  /\ \E m \in Multipliers :
                  \A key \in DOMAIN figures :
                      figures[key].value =
                          NumeralValue(FirstNumeral(text, key)) * m
            /\ (\E i \in 1 .. Len(text) : text[i] = "Crores") =>
                  \A key \in DOMAIN figures :
                      figures[key].value =
                          NumeralValue(FirstNumeral(text, key)) * 10000000
            /\ pc = "text_ratios" =>
                  ratios = _calculate_ratios(UnscaledFigures(text))

\* Revenue is trailed by "lakh" and net profit by "Crores": both are in
\* crores, and the net margin is that of the numerals 2 and 1.
C27_Witness ==
    /\ pc = "text_ratios"
    /\ data.text_content =
          <<"Revenue:", "1", "lakh", "Net Profit", "0,2", "Crores">>
    /\ figures = ("revenue" :> Num(10000000)) @@ ("net_income" :> Num(20000000))
    /\ ratios = ("net_margin" :> <<200, 1>>)

\* Neither figure is trailed by the scale word that is used.
C27_WitnessOtherWords ==
    /\ pc = "text_ratios"
    /\ data.text_content =
          <<"Revenue:", "0,2", "Billion", "Net Profit", "1", "million">>
    /\ figures = ("revenue" :> Num(2000000)) @@ ("net_income" :> Num(1000000))
    /\ ratios = ("net_margin" :> <<50, 1>>)
----------------------------------------------------------------------------
(* _run (custom_tool.py 32-54). *)

\* (Every type that is not "pdf" read as a table.)
Dispatch_DefaultCsv(ft) == IF ft = "pdf" THEN "pdf" ELSE "csv"
\* The branch of lines 36-41.
Dispatch(ft) ==
    IF ft = "pdf" THEN "pdf" ELSE IF ft = "csv" THEN "csv" ELSE "unsupported"

\* (`except ValueError`.)
Catches_ValueErrorOnly(e) == e.type = "ValueError"
\* Line 52, `except Exception`: every exception raised in the pipeline is
\* an instance of Exception.
Catches(e) == e.type \in {"ValueError", "TypeError", "PDFSyntaxError",
                          "ParserError"}

\* (An error result that also hands back the data and analysis locals.)
ErrorResult_Partial(e, ft) ==
    [status |-> "error", error_message |-> e.message, file_type |-> ft,
     analysis |-> NoAnalysis, raw_data |-> NoData]
\* Line 54.
ErrorResult(e, ft) ==
    [status |-> "error", error_message |-> e.message, file_type |-> ft]

\* Lines 45-50.
SuccessResult(ft, a, d) ==
    [status |-> "success", file_type |-> ft, analysis |-> a, raw_data |-> d]

\* Bounds of the files _run is given: a PDF file yields at most MaxPdfKeys
\* figures, each in 0 .. MaxPdfFigure; a table has at most MaxRows rows of
\* cells in 0 .. MaxCell.
MaxPdfKeys == 2
MaxPdfFigure == 1
MaxRows == 2
MaxCell == 1

PdfFiles ==
    {[format |-> "pdf", document_type |-> d, financial_figures |-> f] :
        d \in {"quarterly_results", "financial_document"},
        f \in UNION {[K -> {Num(n) : n \in 0 .. MaxPdfFigure}] :
                        K \in {S \in SUBSET MetricKeys :
                                  Cardinality(S) <= MaxPdfKeys}}}

CsvHeaders == {"Revenue", "revenue", "net_income", "Year", "working_capital"}

\* The tables whose columns all hold the same values.
CsvFiles ==
    {[format |-> "csv", dataframe |-> [c \in H |-> series]] :
        H \in SUBSET CsvHeaders,
        series \in UNION {[1 .. n -> 0 .. MaxCell] : n \in 0 .. MaxRows}}

UnreadableFile == [format |-> "unreadable"]

RunPaths == {<<"a", ".", "pdf">>, <<"a", ".", "csv">>, <<"a", ".", "txt">>}
RunFileTypes == {"auto", "pdf", "csv", "xlsx"}

Init ==
    /\ pc = "run"
    /\ file_path \in RunPaths
    /\ file_type_arg \in RunFileTypes
    /\ file \in PdfFiles \cup CsvFiles \cup {UnreadableFile}
    /\ file_type = file_type_arg
    /\ data = NoData
    /\ figures = EmptyDict
    /\ ratios = EmptyDict
    /\ performance = NoPerformance
    /\ risk_indicators = <<>>
    /\ analysis = NoAnalysis
    /\ exc = NoException
    /\ calls = <<>>
    /\ result = NoResult
    /\ history = <<>>
    /\ ApiIdle

\* Line 34.
ResolveFileType ==
    /\ pc = "run"
    /\ file_type' = IF file_type = "auto" THEN _detect_file_type(file_path)
                    ELSE file_type
    /\ pc' = "dispatch"
    /\ UNCHANGED <<file_path, file_type_arg, file, data, figures, ratios,
                   performance, analysis, exc, calls, result,
                   risk_indicators, history, apiVars>>

\* Lines 36-37.
RunExtractFromPdf ==
    /\ pc = "dispatch"
    /\ Dispatch(file_type) = "pdf"
    /\ calls' = Append(calls, "_extract_from_pdf")
    /\ IF _extract_from_pdf_raises(file)
       THEN /\ exc' = [type |-> "PDFSyntaxError", message |-> "No /Root object"]
            /\ pc' = "except"
            /\ UNCHANGED data
       ELSE /\ data' = _extract_from_pdf(file)
            /\ pc' = "analyze"
            /\ UNCHANGED exc
    /\ UNCHANGED <<file_path, file_type_arg, file, file_type, figures, ratios,
                   performance, analysis, result, risk_indicators, history, apiVars>>

\* Lines 38-39.
RunExtractFromCsv ==
    /\ pc = "dispatch"
    /\ Dispatch(file_type) = "csv"
    /\ calls' = Append(calls, "_extract_from_csv")
    /\ IF _extract_from_csv_raises(file)
       THEN /\ exc' = [type |-> "ParserError", message |-> "Error tokenizing data"]
            /\ pc' = "except"
            /\ UNCHANGED data
       ELSE /\ data' = _extract_from_csv(file)
            /\ pc' = "analyze"
            /\ UNCHANGED exc
    /\ UNCHANGED <<file_path, file_type_arg, file, file_type, figures, ratios,
                   performance, analysis, result, risk_indicators, history, apiVars>>

\* Lines 40-41.
RaiseUnsupported ==
    /\ pc = "dispatch"
    /\ Dispatch(file_type) = "unsupported"
    /\ exc' = [type |-> "ValueError",
               message |-> <<"Unsupported file type: ", file_type>>]
    /\ pc' = "except"
    /\ UNCHANGED <<file_path, file_type_arg, file, file_type, data, figures,
                   ratios, performance, analysis, calls, result,
                   risk_indicators, history, apiVars>>

\* Line 43: the call of _analyze_financial_data, which returns the analysis
\* or raises TypeError out of one of its three figure-reading steps.
RunAnalyze ==
    /\ pc = "analyze"
    /\ calls' = Append(calls, "_analyze_financial_data")
    /\ figures' = data.financial_figures
    /\ IF _analyze_financial_data_raises(data)
       THEN /\ exc' = _analyze_financial_data_error(data)
            /\ pc' = "except"
            /\ UNCHANGED <<ratios, performance, analysis,
                           risk_indicators>>
       ELSE /\ analysis' = _analyze_financial_data(data)
            /\ ratios' = analysis'.financial_ratios
            /\ performance' = analysis'.performance_summary
            /\ risk_indicators' = analysis'.risk_indicators
            /\ pc' = "return"
            /\ UNCHANGED exc
    /\ UNCHANGED <<file_path, file_type_arg, file, file_type, data, result,
                   history, apiVars>>

\* Lines 45-50.
ReturnSuccess ==
    /\ pc = "return"
    /\ result' = SuccessResult(file_type, analysis, data)
    /\ pc' = "returned"
    /\ UNCHANGED <<file_path, file_type_arg, file, file_type, data, figures,
                   ratios, performance, analysis, exc, calls,
                   risk_indicators, history, apiVars>>

\* Lines 52-54: the handler returns the error result; an exception it does
\* not catch leaves _run.
HandleException ==
    /\ pc = "except"
    /\ IF Catches(exc)
       THEN /\ result' = ErrorResult(exc, file_type)
            /\ pc' = "returned"
       ELSE /\ pc' = "propagated"
            /\ UNCHANGED result
    /\ UNCHANGED <<file_path, file_type_arg, file, file_type, data, figures,
                   ratios, performance, analysis, exc, calls,
                   risk_indicators, history, apiVars>>

Next ==
    \/ ResolveFileType
    \/ RunExtractFromPdf
    \/ RunExtractFromCsv
    \/ RaiseUnsupported
    \/ RunAnalyze
    \/ ReturnSuccess
    \/ HandleException

Spec == Init /\ [][Next]_vars

\* C3: _run lets no exception out: whatever the arguments and the stage that
\* fails, the call is inside its try block or has returned, and it returns
\* one result, whose status is "success" or "error".
C3_RunReturnsOneResult ==
    /\ pc \in {"run", "dispatch", "analyze", "return", "except", "returned"}
    /\ pc # "returned" => result = NoResult
    /\ pc = "returned" => result.status \in {"success", "error"}
    /\ exc # NoException =>
          (pc \in {"except", "returned"}
              /\ (pc = "returned" => result.status = "error"))

\* A run that fails in the analysis stage (TypeError on a statistics
\* record) and returns the error result.
C3_Witness ==
    /\ pc = "returned"
    /\ calls = <<"_extract_from_csv", "_analyze_financial_data">>
    /\ exc.type = "TypeError"
    /\ result.status = "error"

\* A run that fails in extraction, and one that succeeds.
C3_WitnessExtraction ==
    /\ pc = "returned"
    /\ calls = <<"_extract_from_pdf">>
    /\ result.status = "error"
C3_WitnessSuccess ==
    /\ pc = "returned"
    /\ result.status = "success"

\* The member of the error taxonomy for the stage at which a run failed.
FailingStageErrorType ==
    IF calls = <<>> THEN "UnsupportedFormat"
    ELSE IF calls[Len(calls)] = "_analyze_financial_data" THEN "AnalysisError"
    ELSE "ExtractionError"

\* C4 (as claimed): every error result carries an error_type and an
\* error_message, and the error_type names the failing stage.
C4_ErrorResultIsTyped ==
    (pc = "returned" /\ result.status = "error") =>
        /\ Has(result, "error_message")
        /\ Has(result, "error_type")
        /\ result.error_type = FailingStageErrorType

\* What the error result does carry.
C4_ErrorResultFields ==
    (pc = "returned" /\ result.status = "error") =>
        /\ DOMAIN result = {"status", "error_message", "file_type"}
        /\ result.error_message = exc.message
        /\ result.file_type = file_type

\* C6: a resolved file type other than "pdf" and "csv" ends the run with an
\* error result, and neither extractor nor the analysis has been invoked.
C6_UnknownFormatIsTerminal ==
    (pc # "run" /\ file_type \notin {"pdf", "csv"}) =>
        /\ calls = <<>>
        /\ pc \in {"dispatch", "except", "returned"}
        /\ pc = "returned" => result.status = "error"

\* A readable PDF file stored under a name that is detected as "unknown":
\* the run has returned an error without reading it.
C6_Witness ==
    /\ pc = "returned"
    /\ file_type_arg = "auto" /\ file_type = "unknown"
    /\ file.format = "pdf"
    /\ calls = <<>>
    /\ result.status = "error"

\* An explicit file_type that is neither "pdf" nor "csv".
C6_WitnessExplicit ==
    /\ pc = "returned"
    /\ file_type_arg = "xlsx" /\ file_type = "xlsx"
    /\ calls = <<>>
    /\ result.status = "error"

\* The keys under which a result hands back what was read or computed.
PartialResultKeys ==
    {"analysis", "raw_data", "document_type", "financial_figures",
     "financial_ratios", "key_insights", "performance_summary",
     "risk_indicators", "recommendations", "trends", "text_content"}

\* C21: when the extractor of the resolved type fails to open or parse the
\* file, the run is aborted: the analysis stage is never called, nothing
\* has been extracted or analysed, and the result returned is the error
\* result, which holds no document type, figure, ratio or other partial
\* output.
C21_ExtractionFailureAborts ==
    exc.type \in {"PDFSyntaxError", "ParserError"} =>
        /\ calls \in {<<"_extract_from_pdf">>, <<"_extract_from_csv">>}
        /\ data = NoData /\ analysis = NoAnalysis
        /\ figures = EmptyDict /\ ratios = EmptyDict
        /\ pc \in {"except", "returned"}
        /\ pc = "returned" =>
              /\ result.status = "error"
              /\ DOMAIN result \cap PartialResultKeys = {}

\* A table handed to the PDF extractor: the run has returned the error
\* result after the one extractor call.
C21_Witness ==
    /\ pc = "returned"
    /\ exc.type = "PDFSyntaxError"
    /\ file.format = "csv"
    /\ calls = <<"_extract_from_pdf">>
    /\ result.status = "error"

\* An unreadable file handed to the table extractor.
C21_WitnessCsv ==
    /\ pc = "returned"
    /\ exc.type = "ParserError"
    /\ calls = <<"_extract_from_csv">>
    /\ result.status = "error"

\* C23 (as claimed): a run whose extractor read the file returns status
\* "success", whatever figures were found and whatever the headers of the
\* table are, a header spelled like a metric key included.
C23_ReadableInputSucceeds ==
    (pc = "returned" /\ data # NoData) => result.status = "success"

\* A table whose one numeric column is headed "revenue": the figure is a
\* statistics record, the analysis raises TypeError on it, and the run
\* returns the error result.
C23_StatisticsRecordFails ==
    /\ pc = "returned"
    /\ file.format = "csv" /\ DOMAIN file.dataframe = {"revenue"}
    /\ data # NoData
    /\ DOMAIN data.financial_figures = {"revenue"}
    /\ data.financial_figures["revenue"].kind = "stats"
    /\ exc.type = "TypeError"
    /\ result.status = "error"

WorkingCapitalFlag == "WORKING CAPITAL RISK: Negative working capital"

C28_WitnessCsv ==
    /\ pc = "returned"
    /\ result.status = "success"
    /\ calls = <<"_extract_from_csv", "_analyze_financial_data">>
    /\ "working_capital" \in DOMAIN file.dataframe
    /\ Len(file.dataframe["working_capital"]) > 0
    /\ ~Has(figures, "working_capital")
    /\ ~InList(WorkingCapitalFlag, result.analysis.risk_indicators)
----------------------------------------------------------------------------
(* Calls of _run one after another on one tool object.  The locals of a     *)
(* call (file_type, data, analysis, the exception) are new in every call;   *)
(* the object keeps its logger and nothing of a call.  Files do not change  *)
(* between the calls.                                                       *)

\* At most MaxCalls calls are made.
MaxCalls == 3

RepeatPaths == {<<"a", ".", "csv">>, <<"a", ".", "txt">>}
RepeatFileTypes == {"auto", "pdf"}
RepeatFiles ==
    {[format |-> "pdf", document_type |-> "quarterly_results",
      financial_figures |-> ("revenue" :> Num(1)) @@ ("net_income" :> Num(1))],
     [format |-> "csv", dataframe |-> ("Revenue" :> <<0, 1>>)],
     [format |-> "csv", dataframe |-> ("revenue" :> <<0, 1>>)]}

\* (The type a call resolved kept on the object and used by the next call.)
EntryFileType_Kept(argument, previous) ==
    IF previous \in {"pdf", "csv"} THEN previous ELSE argument
\* Line 32: the local file_type of a call is bound to the call's argument,
\* whatever an earlier call left in its own.
EntryFileType(argument, previous) == argument

InitRepeat ==
    /\ pc = "run"
    /\ file_path \in RepeatPaths
    /\ file_type_arg \in RepeatFileTypes
    /\ file \in RepeatFiles
    /\ file_type = file_type_arg
    /\ data = NoData
    /\ figures = EmptyDict
    /\ ratios = EmptyDict
    /\ performance = NoPerformance
    /\ risk_indicators = <<>>
    /\ analysis = NoAnalysis
    /\ exc = NoException
    /\ calls = <<>>
    /\ result = NoResult
    /\ history = <<>>
    /\ ApiIdle

\* The call has returned (lines 45-50 or 54) and _run is called again, with
\* any arguments.
CallAgain ==
    /\ pc = "returned"
    /\ Len(history) + 1 < MaxCalls
    /\ history' = Append(history, [file_path |-> file_path,
                                   file_type |-> file_type_arg,
                                   file |-> file, result |-> result])
    /\ file_path' \in RepeatPaths
    /\ file_type_arg' \in RepeatFileTypes
    /\ file' \in RepeatFiles
    /\ file_type' = EntryFileType(file_type_arg', file_type)
    /\ data' = NoData
    /\ figures' = EmptyDict
    /\ ratios' = EmptyDict
    /\ performance' = NoPerformance
    /\ risk_indicators' = <<>>
    /\ analysis' = NoAnalysis
    /\ exc' = NoException
    /\ calls' = <<>>
    /\ result' = NoResult
    /\ pc' = "run"
    /\ UNCHANGED apiVars

NextRepeat ==
    \/ ResolveFileType
    \/ RunExtractFromPdf
    \/ RunExtractFromCsv
    \/ RaiseUnsupported
    \/ RunAnalyze
    \/ ReturnSuccess
    \/ HandleException
    \/ CallAgain

SpecRepeat == InitRepeat /\ [][NextRepeat]_vars

\* An earlier call had the arguments and the file of the present call.
SameCall(h) ==
    /\ h.file_path = file_path
    /\ h.file_type = file_type_arg
    /\ h.file = file

C20_WitnessError ==
    /\ pc = "returned"
    /\ Len(history) = 2
    /\ SameCall(history[1])
    /\ history[2].result.status = "success"
    /\ result.status = "error"
    /\ exc.type = "TypeError"
    /\ result = history[1].result

----------------------------------------------------------------------------
(* _run as a function of its arguments (custom_tool.py 32-54), file_type    *)
(* left at its default "auto": the result the steps of Spec return.         *)

_run(path, f) ==
    LET ft == _detect_file_type(path)
    IN  IF Dispatch(ft) = "unsupported"
        THEN ErrorResult([type |-> "ValueError",
                          message |-> <<"Unsupported file type: ", ft>>], ft)
        ELSE IF Dispatch(ft) = "pdf" /\ _extract_from_pdf_raises(f)
        THEN ErrorResult([type |-> "PDFSyntaxError",
                          message |-> "No /Root object"], ft)
        ELSE IF Dispatch(ft) = "csv" /\ _extract_from_csv_raises(f)
        THEN ErrorResult([type |-> "ParserError",
                          message |-> "Error tokenizing data"], ft)
        ELSE LET d == IF Dispatch(ft) = "pdf" THEN _extract_from_pdf(f)
                      ELSE _extract_from_csv(f)
             IN  IF _analyze_financial_data_raises(d)
                 THEN ErrorResult(_analyze_financial_data_error(d), ft)
                 ELSE SuccessResult(ft, _analyze_financial_data(d), d)

----------------------------------------------------------------------------
(* FinancialAnalysisCrew (crew.py).  The language-model crew is outside the *)
(* program: crew.kickoff() returns a report or raises, and which of the two *)
(* is not determined by the program's state.  An API key is one of three    *)
(* strings: the empty string, a string that is not of the form "sk-" with   *)
(* at least 40 characters, and one that is.                                 *)

ApiKeys == {"", "invalid", "sk-valid"}

\* crew.py line 24: startswith('sk-') and len >= 40.
KeyFormatOk(api_key) == api_key = "sk-valid"

\* os.getenv('OPENAI_API_KEY'), None read as the empty string.
GetEnvKey(env) ==
    IF Has(env, "OPENAI_API_KEY") THEN env["OPENAI_API_KEY"] ELSE ""

\* crew.py lines 19-25.
_validate_api_key_raises(env) ==
    GetEnvKey(env) = "" \/ ~KeyFormatOk(GetEnvKey(env))

_validate_api_key_error(env) ==
    [type |-> "ValueError",
     message |->
         IF GetEnvKey(env) = ""
         THEN "OpenAI API key is required. Set OPENAI_API_KEY environment variable."
         ELSE "Invalid OpenAI API key format."]

\* What crew.kickoff() does: it returns the report, or raises the error of
\* the language-model client.
KickoffOutcomes ==
    {[type |-> "none", message |-> "report"],
     [type |-> "AuthenticationError",
      message |-> "Error code: 401 - Incorrect API key provided (invalid_api_key)"],
     [type |-> "APIConnectionError", message |-> "Connection error."]}

\* crew.py line 197: "api_key" in error_message.lower().  Of the messages of
\* the model, these hold "api_key" once they are in lower case.
MentionsApiKey(error_message) ==
    error_message \in
        {"OpenAI API key is required. Set OPENAI_API_KEY environment variable.",
         "Error code: 401 - Incorrect API key provided (invalid_api_key)"}

\* (An error result that carries the fields of an analysis, empty.)
CrewErrorResult_WithFields(e, path) ==
    [status |-> "error", error_type |-> "general_error",
     error_message |-> e.message, file_path |-> path,
     financial_ratios |-> EmptyDict, key_insights |-> <<>>]
\* crew.py lines 194-211.
CrewErrorResult(e, path) ==
    IF MentionsApiKey(e.message)
    THEN [status |-> "error", error_type |-> "api_key_error",
          error_message |-> "OpenAI API key authentication failed.",
          detailed_error |-> e.message, file_path |-> path]
    ELSE [status |-> "error", error_type |-> "general_error",
          error_message |-> e.message, file_path |-> path]

\* dict.get(k, default)
DictGet(d, k, default) == IF Has(d, k) THEN d[k] ELSE default

\* crew.py lines 172-192.  trends is the empty dict of the analysis.
CombinedResult(crew_output, tool_result, path) ==
    LET combined_result ==
            [crew_output |-> crew_output, tool_analysis |-> tool_result,
             file_path |-> path, status |-> "completed"]
        analysis_data == DictGet(tool_result, "analysis", EmptyDict)
    IN  IF DictGet(tool_result, "status", "None") = "success"
        THEN [document_type |->
                  DictGet(analysis_data, "document_type", "unknown"),
              key_insights |-> DictGet(analysis_data, "key_insights", <<>>),
              financial_ratios |->
                  DictGet(analysis_data, "financial_ratios", EmptyDict),
              trends |-> EmptyDict,
              recommendations |->
                  DictGet(analysis_data, "recommendations", <<>>),
              financial_figures |->
                  DictGet(DictGet(tool_result, "raw_data", EmptyDict),
                          "financial_figures", EmptyDict),
              performance_summary |->
                  DictGet(analysis_data, "performance_summary", EmptyDict),
              risk_indicators |->
                  DictGet(analysis_data, "risk_indicators", <<>>)]
             @@ combined_result
        ELSE combined_result

\* The file paths a crew is built with: those of a direct caller, and those
\* of the API, which stores an upload as os.path.join(temp_dir, filename)
\* (api.py line 162).  The files are a PDF document, a table without and
\* one with a header spelled like a metric key, and a file that is neither.
CrewPaths == RunPaths \cup {<<>>}

UploadNames ==
    {<<"a", ".", "pdf">>, <<"a", ".", "csv">>, <<"a", ".", "txt">>,
     <<"a", ".", "exe">>, <<>>}

TempPath(filename) == <<"tmp", "/">> \o filename

ToolFiles == RepeatFiles \cup {UnreadableFile}

\* The results of _run for the paths and files above.  The merge with the
\* empty dict makes the table one value, computed once.
RunResults ==
    [x \in (CrewPaths \cup {TempPath(n) : n \in UploadNames}) \X ToolFiles |->
        _run(x[1], x[2])] @@ EmptyDict

\* The position and the locals of one call of perform_analysis, of the
\* crew.run call in it and of the crew object's fields.
NewTask(path, name, f) ==
    [pc |-> "queued", file_path |-> path, file_name |-> name, file |-> f,
     crew_output |-> "none", tool_result |-> NoResult, result |-> NoResult,
     exc |-> NoException]

\* crew.py lines 152-156: run raises for an empty file_path before its try
\* block, and validates the API key inside it.
CrewRunEnter(id) ==
    /\ id \in DOMAIN tasks
    /\ tasks[id].pc = "crew_run"
    /\ tasks' =
          [tasks EXCEPT ![id] =
              IF @.file_path = <<>>
              THEN [@ EXCEPT !.pc = "crew_raised",
                             !.exc = [type |-> "ValueError",
                                      message |-> "File path is required for analysis"]]
              ELSE IF _validate_api_key_raises(environ)
              THEN [@ EXCEPT !.pc = "crew_except",
                             !.exc = _validate_api_key_error(environ)]
              ELSE [@ EXCEPT !.pc = "kickoff"]]
    /\ UNCHANGED <<pc, figures, ratios, performance, risk_indicators, runVars,
                   analysis_cache, temp_files, settings, environ, response,
                   api_log>>

\* crew.py line 169.
CrewKickoff(id) ==
    /\ id \in DOMAIN tasks
    /\ tasks[id].pc = "kickoff"
    /\ \E outcome \in KickoffOutcomes :
          tasks' =
              [tasks EXCEPT ![id] =
                  IF outcome.type = "none"
                  THEN [@ EXCEPT !.pc = "crew_tool",
                                 !.crew_output = outcome.message]
                  ELSE [@ EXCEPT !.pc = "crew_except", !.exc = outcome]]
    /\ UNCHANGED <<pc, figures, ratios, performance, risk_indicators, runVars,
                   analysis_cache, temp_files, settings, environ, response,
                   api_log>>

\* crew.py line 170.
CrewRunTool(id) ==
    /\ id \in DOMAIN tasks
    /\ tasks[id].pc = "crew_tool"
    /\ tasks' = [tasks EXCEPT ![id] =
                    [@ EXCEPT !.pc = "crew_combine",
                              !.tool_result =
                                  RunResults[<<tasks[id].file_path,
                                               tasks[id].file>>]]]
    /\ UNCHANGED <<pc, figures, ratios, performance, risk_indicators, runVars,
                   analysis_cache, temp_files, settings, environ, response,
                   api_log>>

\* crew.py lines 172-192.
CrewReturn(id) ==
    /\ id \in DOMAIN tasks
    /\ tasks[id].pc = "crew_combine"
    /\ tasks' = [tasks EXCEPT ![id] =
                    [@ EXCEPT !.pc = "crew_returned",
                              !.result =
                                  CombinedResult(tasks[id].crew_output,
                                                 tasks[id].tool_result,
                                                 tasks[id].file_path)]]
    /\ UNCHANGED <<pc, figures, ratios, performance, risk_indicators, runVars,
                   analysis_cache, temp_files, settings, environ, response,
                   api_log>>

\* crew.py lines 194-211.
CrewExcept(id) ==
    /\ id \in DOMAIN tasks
    /\ tasks[id].pc = "crew_except"
    /\ tasks' = [tasks EXCEPT ![id] =
                    [@ EXCEPT !.pc = "crew_returned",
                              !.result =
                                  CrewErrorResult(tasks[id].exc,
                                                  tasks[id].file_path)]]
    /\ UNCHANGED <<pc, figures, ratios, performance, risk_indicators, runVars,
                   analysis_cache, temp_files, settings, environ, response,
                   api_log>>

----------------------------------------------------------------------------
(* A caller that builds a FinancialAnalysisCrew and calls run().  The       *)
(* constructor has validated the API key (crew.py line 13); run() reads the *)
(* environment again, which is the process's and may differ by then.       *)

InitCrew ==
    /\ pc = "crew"
    /\ figures = EmptyDict
    /\ ratios = EmptyDict
    /\ performance = NoPerformance
    /\ risk_indicators = <<>>
    /\ RunIdle
    /\ \E path \in CrewPaths,
          f \in ToolFiles :
            tasks = (1 :> [NewTask(path, path, f) EXCEPT !.pc = "crew_run"])
    /\ \E api_key \in ApiKeys : environ = ("OPENAI_API_KEY" :> api_key)
    /\ analysis_cache = EmptyDict
    /\ temp_files = {}
    /\ settings = [openai_api_key |-> ""]
    /\ response = NoResponse
    /\ api_log = NoLog

NextCrew ==
    \/ CrewRunEnter(1)
    \/ CrewKickoff(1)
    \/ CrewRunTool(1)
    \/ CrewReturn(1)
    \/ CrewExcept(1)

SpecCrew == InitCrew /\ [][NextCrew]_vars

\* The fields of a result that the deterministic tool computes.
DeterministicFields ==
    {"tool_analysis", "document_type", "key_insights", "financial_ratios",
     "trends", "recommendations", "financial_figures", "performance_summary",
     "risk_indicators"}

\* C30: in run() the tool is invoked only after crew.kickoff() has returned.
\* When the API-key validation or the kickoff raises, the tool is never run
\* and run() returns an error result, of error_type api_key_error or
\* general_error, that holds no ratios, insights, risk indicators or
\* performance summary; a result holds the deterministic fields only when
\* the kickoff has returned its report.
C30_ToolOnlyAfterKickoff ==
    LET t == tasks[1]
    IN  /\ t.tool_result # NoResult =>
              /\ t.crew_output # "none"
              /\ t.exc = NoException
        /\ t.exc.type \in {"AuthenticationError", "APIConnectionError"}
              \/ (t.exc.type = "ValueError" /\ t.pc # "crew_raised")
           => /\ t.tool_result = NoResult
              /\ t.pc \in {"crew_except", "crew_returned"}
              /\ t.pc = "crew_returned" =>
                    /\ t.result.status = "error"
                    /\ t.result.error_type \in {"api_key_error", "general_error"}
                    /\ DOMAIN t.result \cap DeterministicFields = {}
        /\ (t.pc = "crew_returned"
               /\ DOMAIN t.result \cap DeterministicFields # {}) =>
              t.crew_output = "report"

\* The kickoff raised: run() has returned an error and the tool was not run.
C30_Witness ==
    /\ tasks[1].pc = "crew_returned"
    /\ tasks[1].exc.type = "APIConnectionError"
    /\ tasks[1].file.format = "pdf"
    /\ tasks[1].tool_result = NoResult
    /\ tasks[1].result.error_type = "general_error"

\* The validation raised for a key that is not set.
C30_WitnessValidation ==
    /\ tasks[1].pc = "crew_returned"
    /\ tasks[1].exc.type = "ValueError"
    /\ tasks[1].tool_result = NoResult
    /\ tasks[1].result.error_type = "api_key_error"

\* The kickoff returned and the tool succeeded: the result holds the ratios.
C30_WitnessSuccess ==
    /\ tasks[1].pc = "crew_returned"
    /\ tasks[1].crew_output = "report"
    /\ tasks[1].tool_result.status = "success"
    /\ Has(tasks[1].result, "financial_ratios")

----------------------------------------------------------------------------
(* The API (api.py).  The request handlers and perform_analysis are         *)
(* coroutines of one event loop.  perform_analysis holds no await: once the *)
(* loop has started it, no handler runs until it has returned, so its steps *)
(* interleave with no handler and with no other task.  A handler's only     *)
(* await (save_uploaded_file, line 296) comes before it touches the cache.  *)
(* An analysis id is new in every request (line 144); timestamps,           *)
(* company_name and time_period are not modelled.                           *)

\* At most MaxAnalyses uploads are accepted.
MaxAnalyses == 1

AnalysisIds == 1 .. MaxAnalyses

\* api.py line 33, without the dot.
AllowedExtensions == {"pdf", "csv", "xlsx", "xls", "txt", "json"}

\* api.py lines 138-140: filename.lower().endswith(ext) for some ext.
validate_file_extension(filename) ==
    LET name == Lower(filename)
    IN  /\ Len(name) >= 2
        /\ name[Len(name) - 1] = "."
        /\ name[Len(name)] \in AllowedExtensions

\* The uploads: a file name and what the file holds.  A document and a
\* table under their own extensions, the table under an accepted extension
\* the tool does not read, a file no parser reads, and names the API
\* rejects.
Uploads ==
    LET table == [format |-> "csv", dataframe |-> ("Revenue" :> <<0, 1>>)]
    IN  {u \in [file_name : UploadNames, file : ToolFiles] :
            \/ u.file.format = "pdf" /\ u.file_name = <<"a", ".", "pdf">>
            \/ u.file = table /\ u.file_name # <<"a", ".", "pdf">>
            \/ u.file = UnreadableFile /\ u.file_name = <<"a", ".", "pdf">>}

\* api.py lines 307-317.
ProcessingData(id, name) ==
    [status |-> "processing", analysis_id |-> id, file_name |-> name,
     key_insights |-> <<>>, financial_ratios |-> EmptyDict,
     performance_summary |-> EmptyDict, risk_indicators |-> <<>>,
     recommendations |-> <<>>]

\* api.py lines 202-230.
AnalysisData(crew_result, id, name) ==
    IF DictGet(crew_result, "status", "None") = "completed"
    THEN LET summary == DictGet(crew_result, "performance_summary", EmptyDict)
         IN  [status |-> "success", analysis_id |-> id, file_name |-> name,
              document_type |-> DictGet(crew_result, "document_type", "None"),
              overall_grade |-> DictGet(summary, "grade", "None"),
              overall_score |-> DictGet(summary, "overall_score", "None"),
              key_insights |-> DictGet(crew_result, "key_insights", <<>>),
              financial_ratios |->
                  DictGet(crew_result, "financial_ratios", EmptyDict),
              performance_summary |-> summary,
              risk_indicators |-> DictGet(crew_result, "risk_indicators", <<>>),
              recommendations |-> DictGet(crew_result, "recommendations", <<>>),
              crew_output |-> DictGet(crew_result, "crew_output", ""),
              tool_analysis |->
                  DictGet(crew_result, "tool_analysis", EmptyDict)]
    ELSE [status |-> "error", analysis_id |-> id, file_name |-> name,
          error_message |->
              DictGet(crew_result, "error_message", "Analysis failed"),
          error_type |-> DictGet(crew_result, "error_type", "unknown_error")]

\* api.py lines 240-247.
ErrorData(e, id, name) ==
    [status |-> "error", analysis_id |-> id, file_name |-> name,
     error_message |-> e.message, error_type |-> "analysis_error"]

\* analysis_cache[analysis_id] = entry (lines 233, 248, 320).
CacheWrite(cache, id, entry) == (id :> entry) @@ cache

\* del analysis_cache[analysis_id] (line 420).
CacheDelete(cache, id) == [k \in DOMAIN cache \ {id} |-> cache[k]]

\* (A cleanup that removes nothing.)
cleanup_file_Never(files, id) == files
\* api.py lines 171-182: the file is removed if it exists; os.remove is
\* taken to succeed.
cleanup_file(files, id) == files \ {id}

\* AnalysisResponse(**entry), lines 58-72: the fields of the response model,
\* each with its default.
AnalysisResponse(entry) ==
    [status |-> entry.status, analysis_id |-> entry.analysis_id,
     file_name |-> entry.file_name,
     document_type |-> DictGet(entry, "document_type", "None"),
     overall_grade |-> DictGet(entry, "overall_grade", "None"),
     overall_score |-> DictGet(entry, "overall_score", "None"),
     key_insights |-> DictGet(entry, "key_insights", <<>>),
     financial_ratios |-> DictGet(entry, "financial_ratios", EmptyDict),
     performance_summary |-> DictGet(entry, "performance_summary", EmptyDict),
     risk_indicators |-> DictGet(entry, "risk_indicators", <<>>),
     recommendations |-> DictGet(entry, "recommendations", <<>>),
     error_message |-> DictGet(entry, "error_message", "None")]

\* One element of the list of GET /analyses, lines 399-406.
AnalysisSummary(id, entry) ==
    [analysis_id |-> id, status |-> DictGet(entry, "status", "None"),
     file_name |-> DictGet(entry, "file_name", "None"),
     document_type |-> DictGet(entry, "document_type", "None"),
     overall_grade |-> DictGet(entry, "overall_grade", "None")]

\* The event loop runs no perform_analysis call.
LoopFree ==
    \A id \in DOMAIN tasks : tasks[id].pc \in {"queued", "done"}

\* POST /analyze, api.py lines 275-329.  A request without a file name or
\* with an extension that is not allowed is answered 400 and changes
\* nothing; an accepted one saves the file, queues perform_analysis and
\* caches the processing entry.
PostAnalyze ==
    /\ LoopFree
    /\ \E upload \in Uploads :
          IF upload.file_name = <<>>
                 \/ ~validate_file_extension(upload.file_name)
          THEN /\ response' =
                     [status_code |-> 400,
                      detail |-> IF upload.file_name = <<>>
                                 THEN "No file provided"
                                 ELSE "Unsupported file format"]
               /\ UNCHANGED <<analysis_cache, tasks, temp_files>>
          ELSE LET id == Cardinality(DOMAIN tasks) + 1
                   entry == ProcessingData(id, upload.file_name)
               IN  /\ id <= MaxAnalyses
                   /\ temp_files' = temp_files \cup {id}
                   /\ tasks' = (id :> NewTask(TempPath(upload.file_name),
                                              upload.file_name, upload.file))
                                   @@ tasks
                   /\ analysis_cache' = CacheWrite(analysis_cache, id, entry)
                   /\ response' = [status_code |-> 200,
                                   body |-> AnalysisResponse(entry)]
    /\ UNCHANGED <<pc, figures, ratios, performance, risk_indicators, runVars,
                   settings, environ, api_log>>

\* GET /analysis/{analysis_id}, lines 331-342.
GetAnalysisStatus(id) ==
    /\ LoopFree
    /\ response' =
          IF id \notin DOMAIN analysis_cache
          THEN [status_code |-> 404, detail |-> "Analysis not found"]
          ELSE [status_code |-> 200,
                body |-> AnalysisResponse(analysis_cache[id])]
    /\ UNCHANGED <<pc, figures, ratios, performance, risk_indicators, runVars,
                   analysis_cache, tasks, temp_files, settings, environ,
                   api_log>>

\* GET /analyses, lines 386-408, for a limit that is not below the number
\* of entries; the order of the list is by timestamp and is not modelled.
ListAnalyses ==
    /\ LoopFree
    /\ response' =
          [status_code |-> 200,
           analyses |-> {AnalysisSummary(id, analysis_cache[id]) :
                            id \in DOMAIN analysis_cache},
           total |-> Cardinality(DOMAIN analysis_cache)]
    /\ UNCHANGED <<pc, figures, ratios, performance, risk_indicators, runVars,
                   analysis_cache, tasks, temp_files, settings, environ,
                   api_log>>

\* (A delete that also drops the queued task of the analysis.)
DeleteAnalysis_Cancels(id) ==
    /\ LoopFree
    /\ IF id \notin DOMAIN analysis_cache
       THEN /\ response' = [status_code |-> 404,
                            detail |-> "Analysis not found"]
            /\ UNCHANGED <<analysis_cache, api_log, tasks>>
       ELSE /\ analysis_cache' = CacheDelete(analysis_cache, id)
            /\ api_log' =
                  IF analysis_cache[id].status = "processing"
                  THEN [api_log EXCEPT !.deleted = @ \cup {id}]
                  ELSE api_log
            /\ tasks' = IF tasks[id].pc = "queued"
                        THEN [tasks EXCEPT ![id] = [@ EXCEPT !.pc = "done"]]
                        ELSE tasks
            /\ response' = [status_code |-> 200,
                            message |-> "deleted successfully"]
    /\ UNCHANGED <<pc, figures, ratios, performance, risk_indicators, runVars,
                   temp_files, settings, environ>>
\* DELETE /analysis/{analysis_id}, lines 410-422.
DeleteAnalysis(id) ==
    /\ LoopFree
    /\ IF id \notin DOMAIN analysis_cache
       THEN /\ response' = [status_code |-> 404,
                            detail |-> "Analysis not found"]
            /\ UNCHANGED <<analysis_cache, api_log>>
       ELSE /\ analysis_cache' = CacheDelete(analysis_cache, id)
            /\ api_log' =
                  IF analysis_cache[id].status = "processing"
                  THEN [api_log EXCEPT !.deleted = @ \cup {id}]
                  ELSE api_log
            /\ response' = [status_code |-> 200,
                            message |-> "deleted successfully"]
    /\ UNCHANGED <<pc, figures, ratios, performance, risk_indicators, runVars,
                   tasks, temp_files, settings, environ>>

\* perform_analysis, lines 186-192: the event loop starts the queued task.
StartTask(id) ==
    /\ LoopFree
    /\ id \in DOMAIN tasks
    /\ tasks[id].pc = "queued"
    /\ IF settings.openai_api_key = ""
       THEN /\ tasks' = [tasks EXCEPT ![id] =
                            [@ EXCEPT !.pc = "api_except",
                                      !.exc = [type |-> "ValueError",
                                               message |-> "OpenAI API key not configured"]]]
            /\ UNCHANGED environ
       ELSE /\ tasks' = [tasks EXCEPT ![id] = [@ EXCEPT !.pc = "crew_init"]]
            /\ environ' = ("OPENAI_API_KEY" :> settings.openai_api_key)
                              @@ environ
    /\ UNCHANGED <<pc, figures, ratios, performance, risk_indicators, runVars,
                   analysis_cache, temp_files, settings, response, api_log>>

\* Line 195: the constructor validates the key (crew.py line 13).
CrewInit(id) ==
    /\ id \in DOMAIN tasks
    /\ tasks[id].pc = "crew_init"
    /\ tasks' = [tasks EXCEPT ![id] =
                    IF _validate_api_key_raises(environ)
                    THEN [@ EXCEPT !.pc = "api_except",
                                   !.exc = _validate_api_key_error(environ)]
                    ELSE [@ EXCEPT !.pc = "crew_run"]]
    /\ UNCHANGED <<pc, figures, ratios, performance, risk_indicators, runVars,
                   analysis_cache, temp_files, settings, environ, response,
                   api_log>>

\* Lines 202-236: crew.run() has returned.
ProcessResult(id) ==
    /\ id \in DOMAIN tasks
    /\ tasks[id].pc = "crew_returned"
    /\ analysis_cache' =
          CacheWrite(analysis_cache, id,
                     AnalysisData(tasks[id].result, id, tasks[id].file_name))
    /\ api_log' = [api_log EXCEPT
                      !.writes = (id :> DictGet(@, id, 0) + 1) @@ @]
    /\ tasks' = [tasks EXCEPT ![id] = [@ EXCEPT !.pc = "finally"]]
    /\ UNCHANGED <<pc, figures, ratios, performance, risk_indicators, runVars,
                   temp_files, settings, environ, response>>

\* Lines 238-249: an exception was raised in the try block.
ApiExcept(id) ==
    /\ id \in DOMAIN tasks
    /\ tasks[id].pc \in {"api_except", "crew_raised"}
    /\ analysis_cache' =
          CacheWrite(analysis_cache, id,
                     ErrorData(tasks[id].exc, id, tasks[id].file_name))
    /\ api_log' = [api_log EXCEPT
                      !.writes = (id :> DictGet(@, id, 0) + 1) @@ @]
    /\ tasks' = [tasks EXCEPT ![id] = [@ EXCEPT !.pc = "finally"]]
    /\ UNCHANGED <<pc, figures, ratios, performance, risk_indicators, runVars,
                   temp_files, settings, environ, response>>

\* Lines 251-253.
Cleanup(id) ==
    /\ id \in DOMAIN tasks
    /\ tasks[id].pc = "finally"
    /\ temp_files' = cleanup_file(temp_files, id)
    /\ tasks' = [tasks EXCEPT ![id] = [@ EXCEPT !.pc = "done"]]
    /\ UNCHANGED <<pc, figures, ratios, performance, risk_indicators, runVars,
                   analysis_cache, settings, environ, response, api_log>>

\* The steps of the background task of one analysis.
TaskStep(id) ==
    \/ StartTask(id)
    \/ CrewInit(id)
    \/ CrewRunEnter(id)
    \/ CrewKickoff(id)
    \/ CrewRunTool(id)
    \/ CrewReturn(id)
    \/ CrewExcept(id)
    \/ ProcessResult(id)
    \/ ApiExcept(id)
    \/ Cleanup(id)

InitApi ==
    /\ pc = "api"
    /\ figures = EmptyDict
    /\ ratios = EmptyDict
    /\ performance = NoPerformance
    /\ risk_indicators = <<>>
    /\ RunIdle
    /\ analysis_cache = EmptyDict
    /\ tasks = EmptyDict
    /\ temp_files = {}
    /\ \E api_key \in ApiKeys : settings = [openai_api_key |-> api_key]
    /\ environ = EmptyDict
    /\ response = NoResponse
    /\ api_log = NoLog

NextApi ==
    \/ PostAnalyze
    \/ ListAnalyses
    \/ \E id \in AnalysisIds :
          \/ GetAnalysisStatus(id)
          \/ DeleteAnalysis(id)
          \/ TaskStep(id)

SpecApi == InitApi /\ [][NextApi]_vars

\* The event loop runs a task it was given after the response is sent, and
\* a task it has started runs to its end: the crew call returns or raises.
\* No client is bound to send a request.
SpecApiFair ==
    /\ SpecApi
    /\ \A id \in AnalysisIds : WF_vars(TaskStep(id))

TerminalStatuses == {"success", "error"}

\* The number of entries perform_analysis has written under an id.
Writes(id) == DictGet(api_log.writes, id, 0)

\* C24 (as claimed): whenever the tool's _run has returned status "error",
\* crew.run() returns a result tagged as an error and perform_analysis
\* caches the analysis with status "error", never with status "success".
C24_ToolErrorSurfacesAsError ==
    \A id \in DOMAIN tasks :
        tasks[id].tool_result.status = "error" =>
            /\ tasks[id].pc \in {"crew_returned", "finally", "done"} =>
                  tasks[id].result.status = "error"
            /\ (Writes(id) > 0 /\ id \in DOMAIN analysis_cache) =>
                  analysis_cache[id].status = "error"

\* An accepted .txt upload: the tool returns the unsupported-type error,
\* crew.run() returns status "completed" and the entry is cached as a
\* success without a document type, a grade or a ratio.
C24_ToolErrorCachedAsSuccess ==
    /\ 1 \in DOMAIN tasks /\ tasks[1].pc = "done"
    /\ tasks[1].file_name = <<"a", ".", "txt">>
    /\ tasks[1].file.format = "csv"
    /\ tasks[1].tool_result.status = "error"
    /\ tasks[1].result.status = "completed"
    /\ 1 \in DOMAIN analysis_cache
    /\ analysis_cache[1].status = "success"
    /\ analysis_cache[1].document_type = "None"
    /\ analysis_cache[1].financial_ratios = EmptyDict

C25_WitnessErrorResult ==
    /\ 1 \in DOMAIN tasks /\ tasks[1].pc = "done"
    /\ tasks[1].result.status = "error"
    /\ Writes(1) = 1
    /\ 1 \in DOMAIN analysis_cache
    /\ analysis_cache[1].status = "error"
    /\ analysis_cache[1].error_type = "general_error"
    /\ 1 \notin temp_files

\* The path of the normal return.
C25_WitnessSuccess ==
    /\ 1 \in DOMAIN tasks /\ tasks[1].pc = "done"
    /\ tasks[1].tool_result.status = "success"
    /\ Writes(1) = 1
    /\ 1 \in DOMAIN analysis_cache
    /\ analysis_cache[1].status = "success"
    /\ analysis_cache[1].overall_grade \in {"A", "B", "C", "D", "F"}
    /\ 1 \notin temp_files

\* C26: DELETE does not cancel the analysis.  A delete that succeeds while
\* the status is "processing" leaves the queued task as it is, and the task
\* later writes its result into the cache under the same id, where GET
\* finds it again.
C26_DeleteDoesNotCancel ==
    /\ [][\A id \in AnalysisIds :
            (id \in api_log.deleted' /\ id \notin api_log.deleted) =>
                /\ tasks' = tasks
                /\ tasks[id].pc = "queued"
                /\ id \notin DOMAIN analysis_cache']_vars
    /\ \A id \in AnalysisIds :
          (id \in api_log.deleted /\ Writes(id) = 0) ~>
              (/\ id \in DOMAIN analysis_cache
               /\ analysis_cache[id].status \in TerminalStatuses)

\* GET /analysis/{id} has returned the result of an analysis whose entry
\* was deleted while it was processing.
C26_Witness ==
    /\ 1 \in api_log.deleted
    /\ response.status_code = 200
    /\ Has(response, "body")
    /\ response.body.analysis_id = 1
    /\ response.body.status \in TerminalStatuses

\* GET /analyses lists it.
C26_WitnessListed ==
    /\ 1 \in api_log.deleted
    /\ response.status_code = 200
    /\ Has(response, "analyses")
    /\ \E a \in response.analyses :
          a.analysis_id = 1 /\ a.status \in TerminalStatuses

====
